---- MODULE Spec2Model ----
(***************************************************************************)
(* Verification model of the bank-statement transaction parser             *)
(* (backend/src/lib/parser.ts): parseTransaction, its three format         *)
(* handlers, the shared field normalizers and parseMultipleTransactions.   *)
(*                                                                         *)
(* A text is a sequence of characters.  An ASCII character is the          *)
(* one-character string itself; the few other characters the parser        *)
(* looks at are named atoms (RUPEE, ARROW, EMDASH, ENDASH, LF, CR, TAB).   *)
(* Regular expressions are data (a sequence of items) interpreted by a     *)
(* backtracking matcher with the priorities of the JavaScript engine:      *)
(* leftmost start, alternatives in order, greedy longest-first, lazy       *)
(* shortest-first.                                                         *)
(***************************************************************************)
EXTENDS Integers, Sequences, FiniteSets, TLC

\* ------------------------------------------------------------ characters

RUPEE  == "RUPEE"     \* U+20B9
ARROW  == "ARROW"     \* U+2192
EMDASH == "EMDASH"    \* U+2014
ENDASH == "ENDASH"    \* U+2013
LF     == "LF"        \* \n
CR     == "CR"        \* \r
TAB    == "TAB"       \* \t
SP     == " "

UpperSeq == << "A","B","C","D","E","F","G","H","I","J","K","L","M",
               "N","O","P","Q","R","S","T","U","V","W","X","Y","Z" >>
LowerSeq == << "a","b","c","d","e","f","g","h","i","j","k","l","m",
               "n","o","p","q","r","s","t","u","v","w","x","y","z" >>
DigitSeq == << "0","1","2","3","4","5","6","7","8","9" >>

SeqRange(s) == { s[i] : i \in 1..Len(s) }

Upper  == SeqRange(UpperSeq)
Lower  == SeqRange(LowerSeq)
Alpha  == Upper \cup Lower
Digit  == SeqRange(DigitSeq)
\* \s and the characters String.prototype.trim removes, within the alphabet
White  == { SP, TAB, LF, CR }
\* \w
WordCh == Alpha \cup Digit \cup { "_" }
\* the characters "." does not match
LineTerm == { LF, CR }
Glyphs == { ARROW, EMDASH, ENDASH }

ToLowerCh(c) ==
    IF c \in Upper THEN LowerSeq[CHOOSE i \in 1..26 : UpperSeq[i] = c] ELSE c
ToUpperCh(c) ==
    IF c \in Lower THEN UpperSeq[CHOOSE i \in 1..26 : LowerSeq[i] = c] ELSE c
DigitVal(c) == (CHOOSE i \in 1..10 : DigitSeq[i] = c) - 1

\* String.prototype.toLowerCase
toLowerCase(s) == [ i \in 1..Len(s) |-> ToLowerCh(s[i]) ]

\* ------------------------------------------------------------ strings

\* s.substring(from, to) with 0-based indices from <= to, as 1-based SubSeq
Sub(s, from, to) == SubSeq(s, from, to - 1)

\* String.prototype.startsWith / includes
startsWith(s, p) == Len(p) <= Len(s) /\ SubSeq(s, 1, Len(p)) = p
includes(s, p) == \E i \in 1..(Len(s) - Len(p) + 1) : SubSeq(s, i, i + Len(p) - 1) = p

\* least and greatest element of a non-empty set of integers
Min(S) == CHOOSE m \in S : \A n \in S : m <= n
Max(S) == CHOOSE m \in S : \A n \in S : m >= n

\* String.prototype.trim: from the first to the last non-white character
trim(s) ==
    LET keep == { i \in 1..Len(s) : s[i] \notin White }
    IN IF keep = {} THEN << >> ELSE SubSeq(s, Min(keep), Max(keep))

\* s.replace(/[set]/g, '')
RemoveAll(s, set) == SelectSeq(s, LAMBDA c : c \notin set)

\* s.replace(/\r\n/g, '\n').replace(/\r/g, '\n'): a CR before an LF goes,
\* every other CR becomes an LF
NormalizeBreaks(s) ==
    LET marked == [ i \in 1..Len(s) |->
                      IF s[i] = CR /\ i < Len(s) /\ s[i + 1] = LF THEN "DEL"
                      ELSE IF s[i] = CR THEN LF ELSE s[i] ]
    IN SelectSeq(marked, LAMBDA c : c # "DEL")

\* the k-th smallest element of a set of integers
Nth(S, k) == CHOOSE p \in S : Cardinality({ q \in S : q <= p }) = k

\* s.split('\n'): the pieces between the LF characters (always at least one)
SplitLF(s) ==
    LET at  == { i \in 1..Len(s) : s[i] = LF }
        n   == Cardinality(at)
        cut == [ k \in 0..(n + 1) |->
                   IF k = 0 THEN 0 ELSE IF k = n + 1 THEN Len(s) + 1 ELSE Nth(at, k) ]
    IN [ k \in 1..(n + 1) |-> SubSeq(s, cut[k - 1] + 1, cut[k] - 1) ]

\* array.map(line => line.trim()) and array.filter(line => line.length > 0)
MapTrim(ls) == [ i \in 1..Len(ls) |-> trim(ls[i]) ]
FilterNonEmpty(ls) == SelectSeq(ls, LAMBDA l : Len(l) > 0)

\* ------------------------------------------------------------ regular expressions

\* items of a pattern: a class of characters repeated min..max times (inf:
\* no upper limit; neg: the complement of the class), a literal, the start
\* and the end of a capture group, the anchors, and (?:a|b|...)
Rep(set, neg, min, max, inf, greedy) ==
    [ k |-> "set", s |-> set, neg |-> neg, min |-> min, max |-> max, inf |-> inf, greedy |-> greedy ]
Cls(set, min, max)     == Rep(set, FALSE, min, max, FALSE, TRUE)
Plus(set)              == Rep(set, FALSE, 1, 0, TRUE, TRUE)
Star(set)              == Rep(set, FALSE, 0, 0, TRUE, TRUE)
Opt(set)               == Cls(set, 0, 1)
One(set)               == Cls(set, 1, 1)
DotPlus                == Rep(LineTerm, TRUE, 1, 0, TRUE, TRUE)
DotStar                == Rep(LineTerm, TRUE, 0, 0, TRUE, TRUE)
DotPlusLazy            == Rep(LineTerm, TRUE, 1, 0, TRUE, FALSE)
DotStarLazy            == Rep(LineTerm, TRUE, 0, 0, TRUE, FALSE)
Open(g)                == [ k |-> "open", g |-> g ]
Close(g)               == [ k |-> "close", g |-> g ]
Bol                    == [ k |-> "bol" ]
Eol                    == [ k |-> "eol" ]
Alt(alts)              == [ k |-> "alt", alts |-> alts ]
\* a literal string as a one-item pattern, case-sensitive and with the i flag
Lit(str)  == << [ k |-> "lit", cs |-> [ i \in 1..Len(str) |-> { str[i] } ] ] >>
LitI(str) == << [ k |-> "lit", cs |-> [ i \in 1..Len(str) |-> { ToLowerCh(str[i]), ToUpperCh(str[i]) } ] ] >>

NoCaps  == [ g \in 1..6 |-> << 0, 0 >> ]
NoMatch == [ ok |-> FALSE, index |-> 0, end |-> 0, caps |-> NoCaps ]

InCls(it, c) == (c \in it.s) # it.neg

\* how many characters from pos on lie in the item's class, up to its max
RunCap(it, run) == IF ~it.inf /\ run > it.max THEN it.max ELSE run
RunLen(it, text, pos) ==
    RunCap(it, Min({ n \in 0..(Len(text) - pos + 1) :
                       pos + n > Len(text) \/ ~InCls(it, text[pos + n]) }))

\* try maps each candidate (a repetition count, a start position) to the
\* match of the rest of the pattern with it; the successful candidates
Okays(try) == { n \in DOMAIN try : try[n].ok }
\* the first successful candidate in backtracking order: the greatest count
\* for a greedy repetition, the least for a lazy one
PickOf(greedy, try, good) ==
    IF good = {} THEN NoMatch
    ELSE IF greedy THEN try[Max(good)] ELSE try[Min(good)]
Pick(greedy, try) == PickOf(greedy, try, Okays(try))

\* the first match, in backtracking order, of pattern re at position pos
RECURSIVE MatchHere(_, _, _, _), TryAlts(_, _, _, _, _, _)
MatchItem(it, rest, text, pos, caps) ==
    CASE it.k = "bol" ->
           IF pos = 1 THEN MatchHere(rest, text, pos, caps) ELSE NoMatch
      [] it.k = "eol" ->
           IF pos = Len(text) + 1 THEN MatchHere(rest, text, pos, caps) ELSE NoMatch
      [] it.k = "open" ->
           MatchHere(rest, text, pos, [ caps EXCEPT ![it.g] = << pos, pos >> ])
      [] it.k = "close" ->
           MatchHere(rest, text, pos, [ caps EXCEPT ![it.g] = << caps[it.g][1], pos >> ])
      [] it.k = "lit" ->
           IF pos + Len(it.cs) - 1 <= Len(text)
              /\ \A i \in 1..Len(it.cs) : text[pos + i - 1] \in it.cs[i]
           THEN MatchHere(rest, text, pos + Len(it.cs), caps)
           ELSE NoMatch
      [] it.k = "alt" ->
           TryAlts(it.alts, 1, rest, text, pos, caps)
      [] it.k = "set" ->
           Pick(it.greedy,
                [ n \in it.min..RunLen(it, text, pos) |-> MatchHere(rest, text, pos + n, caps) ])

MatchHere(re, text, pos, caps) ==
    IF Len(re) = 0 THEN [ ok |-> TRUE, index |-> 0, end |-> pos, caps |-> caps ]
    ELSE MatchItem(Head(re), Tail(re), text, pos, caps)

FirstOk(r, next) == IF r.ok THEN r ELSE next
TryAlts(alts, j, rest, text, pos, caps) ==
    IF j > Len(alts) THEN NoMatch
    ELSE FirstOk(MatchHere(alts[j] \o rest, text, pos, caps),
                 TryAlts(alts, j + 1, rest, text, pos, caps))

\* String.prototype.match(re) without the g flag: the leftmost match
LeftmostOf(try, good) ==
    IF good = {} THEN NoMatch
    ELSE [ try[Min(good)] EXCEPT !.index = Min(good) ]
Leftmost(try) == LeftmostOf(try, Okays(try))
Match(text, re) ==
    Leftmost([ p \in 1..(Len(text) + 1) |-> MatchHere(re, text, p, NoCaps) ])
\* RegExp.prototype.test
Test(text, re) == Match(text, re).ok
\* the text of capture group g of a match
Group(text, m, g) == SubSeq(text, m.caps[g][1], m.caps[g][2] - 1)

\* ------------------------------------------------------------ numbers and dates

\* thrown Error(message): msg is the fixed part of the message, raw the
\* interpolated substring, found the four interpolated flags of a
\* missing-fields message
Throw(msg, raw, found) == [ ok |-> FALSE, msg |-> msg, raw |-> raw, found |-> found ]
Return(v) == [ ok |-> TRUE, v |-> v ]
NoFlags == << >>

Null == [ null |-> TRUE ]
NaN  == [ nan |-> TRUE ]

RECURSIVE Pow10(_)
Pow10(n) == IF n = 0 THEN 1 ELSE 10 * Pow10(n - 1)

\* the value of a digit string (parseInt(s) of /\d+/ text, radix 10)
RECURSIVE parseInt(_)
parseInt(s) ==
    IF s = << >> THEN 0
    ELSE parseInt(SubSeq(s, 1, Len(s) - 1)) * 10 + DigitVal(s[Len(s)])

\* A Number is sign and magnitude m * 10^(-e), in lowest terms; the sign is
\* kept apart so that -0 is a value, as in IEEE 754.
RECURSIVE Canon(_, _)
Canon(m, e) == IF e > 0 /\ m % 10 = 0 THEN Canon(m \div 10, e - 1) ELSE << m, e >>
NumberOf(neg, me) == [ neg |-> neg, m |-> me[1], e |-> me[2] ]
Number(neg, m, e) == NumberOf(neg, Canon(m, e))
IsNaN(n) == n = NaN
\* Math.abs(n) * -1
NegAbs(n) == [ n EXCEPT !.neg = TRUE ]
IsNegative(n) == n.neg /\ n.m > 0
IsZero(n) == n.m = 0

\* StrDecimalLiteral: [+-]? ( digits [. digits?] | . digits ) [ e [+-]? digits ]
ReFloat ==
    << Bol, Open(1), Opt({ "+", "-" }), Close(1),
       Alt(<< << Open(2), Plus(Digit), Close(2),
                 Alt(<< << One({ "." }), Open(3), Star(Digit), Close(3) >>, << >> >>) >>,
              << One({ "." }), Open(3), Plus(Digit), Close(3) >> >>),
       Alt(<< << One({ "e", "E" }), Open(4), Opt({ "+", "-" }), Close(4),
                 Open(5), Plus(Digit), Close(5) >>,
              << >> >>) >>

\* mant * 10^(-k) scaled by the exponent part
FloatShift(neg, mant, k, exneg, ex) ==
    IF exneg THEN Number(neg, mant, k + ex)
    ELSE IF ex >= k THEN Number(neg, mant * Pow10(ex - k), 0)
    ELSE Number(neg, mant, k - ex)
FloatParts(neg, ip, fr, exneg, ex) ==
    FloatShift(neg, ip * Pow10(Len(fr)) + parseInt(fr), Len(fr), exneg, ex)
FloatOf(s, m) ==
    IF ~m.ok THEN NaN
    ELSE FloatParts(Group(s, m, 1) = << "-" >>, parseInt(Group(s, m, 2)), Group(s, m, 3),
                    Group(s, m, 4) = << "-" >>, parseInt(Group(s, m, 5)))
\* parseFloat(s): the longest prefix of s that is a decimal literal, NaN if
\* there is none (s has no leading white space where the parser calls it)
parseFloat(s) == FloatOf(s, Match(s, ReFloat))

\* A Date is its time value: whole days since 1970-01-01 UTC and the
\* milliseconds within that day.
IsLeap(y) == (y % 4 = 0 /\ y % 100 # 0) \/ y % 400 = 0
DaysInMonth(y, m) ==
    IF m = 2 THEN (IF IsLeap(y) THEN 29 ELSE 28)
    ELSE IF m \in { 4, 6, 9, 11 } THEN 30 ELSE 31

\* days from 1970-01-01 to the first day of year y
DayFromYear(y) ==
    365 * (y - 1970) + ((y - 1969) \div 4) - ((y - 1901) \div 100) + ((y - 1601) \div 400)
RECURSIVE DaysBeforeMonth(_, _)
DaysBeforeMonth(y, m) ==
    IF m = 1 THEN 0 ELSE DaysBeforeMonth(y, m - 1) + DaysInMonth(y, m - 1)

\* ECMAScript MakeDay(year, month, date): month is 0-based and may exceed 11,
\* date may exceed the month's length; both carry over
MakeDayIn(ym, mn, date) == DayFromYear(ym) + DaysBeforeMonth(ym, mn + 1) + date - 1
MakeDay(year, month, date) == MakeDayIn(year + (month \div 12), month % 12, date)

\* new Date(Date.UTC(year, monthIndex, day)): years 0..99 mean 1900..1999,
\* the time within the day is 0
DateUTC(year, monthIndex, day) ==
    [ day |-> MakeDay(IF year \in 0..99 THEN 1900 + year ELSE year, monthIndex, day),
      ms  |-> 0 ]

\* the UTC calendar fields of a Date: getUTCFullYear, getUTCMonth() + 1, getUTCDate
RECURSIVE YearOfDay(_, _)
YearOfDay(d, y) ==
    IF d < DayFromYear(y) THEN YearOfDay(d, y - 1)
    ELSE IF d >= DayFromYear(y + 1) THEN YearOfDay(d, y + 1)
    ELSE y
RECURSIVE MonthOfDay(_, _, _)
MonthOfDay(d, y, m) ==
    IF d - DayFromYear(y) >= DaysBeforeMonth(y, m) + DaysInMonth(y, m)
    THEN MonthOfDay(d, y, m + 1) ELSE m
FieldsIn(d, y, m) ==
    [ year |-> y, month |-> m, date |-> d - DayFromYear(y) - DaysBeforeMonth(y, m) + 1 ]
FieldsInYear(d, y) == FieldsIn(d, y, MonthOfDay(d, y, 1))
UTCFields(date) == FieldsInYear(date.day, YearOfDay(date.day, 1970 + (date.day \div 365)))

ReIsoDateTime ==
    << Bol, Open(1), Cls(Digit, 4, 4), Close(1), One({ "-" }),
       Open(2), Cls(Digit, 2, 2), Close(2), One({ "-" }),
       Open(3), Cls(Digit, 2, 2), Close(3), One({ "T" }),
       Open(4), Cls(Digit, 2, 2), Close(4), One({ ":" }),
       Open(5), Cls(Digit, 2, 2), Close(5), One({ ":" }),
       Open(6), Cls(Digit, 2, 2), Close(6), One({ "Z" }), Eol >>

DateTimeOf(y, mo, d, h, mi, s) ==
    IF mo \in 1..12 /\ d \in 1..DaysInMonth(y, mo)
       /\ h \in 0..23 /\ mi \in 0..59 /\ s \in 0..59
    THEN [ day |-> MakeDay(y, mo - 1, d), ms |-> ((h * 60 + mi) * 60 + s) * 1000 ]
    ELSE NaN
NewDateOf(dateStr, m) ==
    IF ~m.ok THEN NaN
    ELSE DateTimeOf(parseInt(Group(dateStr, m, 1)), parseInt(Group(dateStr, m, 2)),
                    parseInt(Group(dateStr, m, 3)), parseInt(Group(dateStr, m, 4)),
                    parseInt(Group(dateStr, m, 5)), parseInt(Group(dateStr, m, 6)))
\* new Date(dateStr) for a string none of the three literal shapes matched.
\* ECMAScript fixes the result for the date-time format
\* YYYY-MM-DDTHH:mm:ssZ (no carry-over: a field out of range gives an invalid
\* Date); every other string of the modelled input domain is one the engine
\* rejects (NaN time value).
NewDate(dateStr) == NewDateOf(dateStr, Match(dateStr, ReIsoDateTime))

monthNames ==
    << <<"J","a","n">>, <<"F","e","b">>, <<"M","a","r">>, <<"A","p","r">>,
       <<"M","a","y">>, <<"J","u","n">>, <<"J","u","l">>, <<"A","u","g">>,
       <<"S","e","p">>, <<"O","c","t">>, <<"N","o","v">>, <<"D","e","c">> >>
\* monthNames.findIndex(m => m.toLowerCase() === month.toLowerCase()), -1 if none
findMonthIndex(month) ==
    IF \E i \in 1..12 : toLowerCase(monthNames[i]) = toLowerCase(month)
    THEN (CHOOSE i \in 1..12 : toLowerCase(monthNames[i]) = toLowerCase(month)) - 1
    ELSE -1

\* /^(\d{1,2})\s+([A-Za-z]{3})\s+(\d{4})$/
ReDateDMonY ==
    << Bol, Open(1), Cls(Digit, 1, 2), Close(1), Plus(White),
       Open(2), Cls(Alpha, 3, 3), Close(2), Plus(White),
       Open(3), Cls(Digit, 4, 4), Close(3), Eol >>
\* /^(\d{1,2})\/(\d{1,2})\/(\d{4})$/
ReDateSlash ==
    << Bol, Open(1), Cls(Digit, 1, 2), Close(1), One({ "/" }),
       Open(2), Cls(Digit, 1, 2), Close(2), One({ "/" }),
       Open(3), Cls(Digit, 4, 4), Close(3), Eol >>
\* /^(\d{4})-(\d{2})-(\d{2})$/
ReDateIso ==
    << Bol, Open(1), Cls(Digit, 4, 4), Close(1), One({ "-" }),
       Open(2), Cls(Digit, 2, 2), Close(2), One({ "-" }),
       Open(3), Cls(Digit, 2, 2), Close(3), Eol >>

\* lines 266-273: const [, day, month, year] = format1Match
DMonYDateAt(day, month, year, monthIndex) ==
    IF monthIndex = -1
    THEN Throw("Invalid month: ", month, NoFlags)
    ELSE Return(DateUTC(parseInt(year), monthIndex, parseInt(day)))
DMonYDate(day, month, year) == DMonYDateAt(day, month, year, findMonthIndex(month))
\* the slash date read day first
SlashDateDayFirst(month, day, year) ==
    DateUTC(parseInt(year), parseInt(day) - 1, parseInt(month))
\* lines 279-281: const [, month, day, year] = format2Match
SlashDate(month, day, year) ==
    DateUTC(parseInt(year), parseInt(month) - 1, parseInt(day))
\* lines 287-289: const [, year, month, day] = format3Match
IsoDate(year, month, day) ==
    DateUTC(parseInt(year), parseInt(month) - 1, parseInt(day))
\* lines 293-297
NativeDate(dateStr, parsed) ==
    IF IsNaN(parsed)
    THEN Throw("Failed to parse date: ", dateStr, NoFlags)
    ELSE Return(parsed)

DateShape3(dateStr, format3Match) ==
    IF format3Match.ok
    THEN Return(IsoDate(Group(dateStr, format3Match, 1), Group(dateStr, format3Match, 2),
                        Group(dateStr, format3Match, 3)))
    ELSE NativeDate(dateStr, NewDate(dateStr))
DateShape2(dateStr, format2Match) ==
    IF format2Match.ok
    THEN Return(SlashDate(Group(dateStr, format2Match, 1), Group(dateStr, format2Match, 2),
                          Group(dateStr, format2Match, 3)))
    ELSE DateShape3(dateStr, Match(dateStr, ReDateIso))
DateShape1(dateStr, format1Match) ==
    IF format1Match.ok
    THEN DMonYDate(Group(dateStr, format1Match, 1), Group(dateStr, format1Match, 2),
                   Group(dateStr, format1Match, 3))
    ELSE DateShape2(dateStr, Match(dateStr, ReDateSlash))
\* parseDate: the three literal shapes in order, then the native parser
parseDate(dateStr) == DateShape1(dateStr, Match(dateStr, ReDateDMonY))

\* amountStr.replace(/[RUPEE,\s]/g, '')
Cleaned(str) == RemoveAll(str, { RUPEE, "," } \cup White)

\* lines 322-324: debit flag or leading minus gives -abs
applySign(amount, isDebit, isNegative) ==
    IF isDebit \/ isNegative THEN NegAbs(amount) ELSE amount

AmountOf(amountStr, isDebit, isNegative, amount) ==
    IF IsNaN(amount)
    THEN Throw("Failed to parse amount: ", amountStr, NoFlags)
    ELSE Return(applySign(amount, isDebit, isNegative))
AmountOfCleaned(amountStr, isDebit, cleaned) ==
    AmountOf(amountStr, isDebit, startsWith(cleaned, << "-" >>), parseFloat(cleaned))
parseAmount(amountStr, isDebit) == AmountOfCleaned(amountStr, isDebit, Cleaned(amountStr))

BalanceOf(balanceStr, balance) ==
    IF IsNaN(balance)
    THEN Throw("Failed to parse balance: ", balanceStr, NoFlags)
    ELSE Return(balance)
parseBalance(balanceStr) == BalanceOf(balanceStr, parseFloat(Cleaned(balanceStr)))

\* ------------------------------------------------------------ the literals of the patterns

sDate        == << "D", "a", "t", "e", ":" >>
sDescription == << "D", "e", "s", "c", "r", "i", "p", "t", "i", "o", "n", ":" >>
sAmount      == << "A", "m", "o", "u", "n", "t", ":" >>
sBalance     == << "B", "a", "l", "a", "n", "c", "e" >>
sBal         == << "B", "a", "l" >>
sAfter       == << "a", "f", "t", "e", "r" >>
sTransaction == << "t", "r", "a", "n", "s", "a", "c", "t", "i", "o", "n" >>
sAvailable   == << "A", "v", "a", "i", "l", "a", "b", "l", "e" >>
sTxn         == << "t", "x", "n" >>
sDr          == << "D", "r" >>
sDebit       == << "D", "e", "b", "i", "t" >>
sDebited     == << "d", "e", "b", "i", "t", "e", "d" >>
AmountCh     == Digit \cup { "," }
BalanceCh    == Digit \cup { RUPEE, ",", ".", "-" }

\* /Date:/i
ReDateLabel == LitI(sDate)
\* /\d{1,2}\/\d{1,2}\/\d{4}/ and /\d{1,2}\s+[A-Za-z]{3}\s+\d{4}/, also as
\* /(...)/ with the whole match as group 1
ReSlashPattern ==
    << Open(1), Cls(Digit, 1, 2), One({ "/" }), Cls(Digit, 1, 2), One({ "/" }),
       Cls(Digit, 4, 4), Close(1) >>
ReDMonYPattern ==
    << Open(1), Cls(Digit, 1, 2), Plus(White), Cls(Alpha, 3, 3), Plus(White),
       Cls(Digit, 4, 4), Close(1) >>
\* /(\d{4}-\d{2}-\d{2})/
ReIsoPattern ==
    << Open(1), Cls(Digit, 4, 4), One({ "-" }), Cls(Digit, 2, 2), One({ "-" }),
       Cls(Digit, 2, 2), Close(1) >>
\* /txn/i
ReTxn == LitI(sTxn)

\* /^Date:\s*(.+)/i, /^Description:\s*(.+)/i, /^Amount:\s*(.+)/i
ReF1Date        == << Bol >> \o LitI(sDate) \o << Star(White), Open(1), DotPlus, Close(1) >>
ReF1Description == << Bol >> \o LitI(sDescription) \o << Star(White), Open(1), DotPlus, Close(1) >>
ReF1Amount      == << Bol >> \o LitI(sAmount) \o << Star(White), Open(1), DotPlus, Close(1) >>
\* /^Balance\s+(?:after\s+transaction|after):\s*(.+)/i
ReF1Balance ==
    << Bol >> \o LitI(sBalance) \o
    << Plus(White),
       Alt(<< LitI(sAfter) \o << Plus(White) >> \o LitI(sTransaction), LitI(sAfter) >>),
       One({ ":" }), Star(White), Open(1), DotPlus, Close(1) >>

\* /Date:\s*(.+?)\s*Description:/i, /Description:\s*(.+?)\s*Amount:/i,
\* /Amount:\s*(.+?)\s*Balance/i
ReSLDate ==
    LitI(sDate) \o << Star(White), Open(1), DotPlusLazy, Close(1), Star(White) >> \o LitI(sDescription)
ReSLDescription ==
    LitI(sDescription) \o << Star(White), Open(1), DotPlusLazy, Close(1), Star(White) >> \o LitI(sAmount)
ReSLAmount ==
    LitI(sAmount) \o << Star(White), Open(1), DotPlusLazy, Close(1), Star(White) >> \o LitI(sBalance)
\* /Balance.*:\s*([RUPEE\d,.-]+)\s*$/i
ReSLBalance ==
    LitI(sBalance) \o
    << DotStar, One({ ":" }), Star(White), Open(1), Plus(BalanceCh), Close(1), Star(White), Eol >>
\* /Balance.*?\s+([RUPEE\d,.-]+)\s*$/i
ReSLBalanceFallback ==
    LitI(sBalance) \o
    << DotStarLazy, Plus(White), Open(1), Plus(BalanceCh), Close(1), Star(White), Eol >>

\* /Available\s+Balance/i
ReAvailableBalance == LitI(sAvailable) \o << Plus(White) >> \o LitI(sBalance)
\* /(?:ARROW|EMDASH|ENDASH)\s*[RUPEE]?([\d,]+\.\d{2})/
ReF2Amount ==
    << One(Glyphs), Star(White), Opt({ RUPEE }),
       Open(1), Plus(AmountCh), One({ "." }), Cls(Digit, 2, 2), Close(1) >>
\* /[RUPEE]?([\d,]+\.?\d*)/
ReF2Balance ==
    << Opt({ RUPEE }), Open(1), Plus(AmountCh), Opt({ "." }), Star(Digit), Close(1) >>

\* /Dr|Debit|debited/i
ReDebitMarker == << Alt(<< LitI(sDr), LitI(sDebit), LitI(sDebited) >>) >>
\* /[RUPEE]([\d,]+\.\d{2})\s*(?:Dr|Debit|debited)?/i
ReF3Amount ==
    << One({ RUPEE }), Open(1), Plus(AmountCh), One({ "." }), Cls(Digit, 2, 2), Close(1),
       Star(White), Alt(<< LitI(sDr), LitI(sDebit), LitI(sDebited), << >> >>) >>
\* /(?:Bal|Balance)\s+[RUPEE]?([\d,]+\.?\d*)/i
ReF3Balance ==
    << Alt(<< LitI(sBal), LitI(sBalance) >>), Plus(White), Opt({ RUPEE }),
       Open(1), Plus(AmountCh), Opt({ "." }), Star(Digit), Close(1) >>
\* /^txn\w*\s*/i
ReTxnPrefix == << Bol >> \o LitI(sTxn) \o << Star(WordCh), Star(White) >>

\* ------------------------------------------------------------ Format 1 (labels)

\* the four locals of a handler before anything was found
NoFields == [ date |-> Null, description |-> << >>, amount |-> Null, balance |-> Null ]

\* the completeness test both line-oriented handlers end with (lines 111-115, 203-207)
Complete(format, f) ==
    IF f.date = Null \/ f.description = << >> \/ f.amount = Null \/ f.balance = Null
    THEN Throw(format, << >>,
               << f.date # Null, f.description # << >>, f.amount # Null, f.balance # Null >>)
    ELSE Return(f)

\* an assignment field = normalizer(...): the error when the normalizer threw
SetDate(f, r)    == IF r.ok THEN Return([ f EXCEPT !.date = r.v ]) ELSE r
SetAmount(f, r)  == IF r.ok THEN Return([ f EXCEPT !.amount = r.v ]) ELSE r
SetBalance(f, r) == IF r.ok THEN Return([ f EXCEPT !.balance = r.v ]) ELSE r

\* one iteration of the loop of parseFormat1 (lines 80-109): the if / else
\* if chain over the four label patterns
F1Balance(line, f, balanceMatch) ==
    IF balanceMatch.ok
    THEN SetBalance(f, parseBalance(trim(Group(line, balanceMatch, 1))))
    ELSE Return(f)
F1Amount(line, f, amountMatch) ==
    IF amountMatch.ok
    THEN SetAmount(f, parseAmount(trim(Group(line, amountMatch, 1)), FALSE))
    ELSE F1Balance(line, f, Match(line, ReF1Balance))
F1Description(line, f, descMatch) ==
    IF descMatch.ok
    THEN Return([ f EXCEPT !.description = trim(Group(line, descMatch, 1)) ])
    ELSE F1Amount(line, f, Match(line, ReF1Amount))
F1Date(line, f, dateMatch) ==
    IF dateMatch.ok
    THEN SetDate(f, parseDate(trim(Group(line, dateMatch, 1))))
    ELSE F1Description(line, f, Match(line, ReF1Description))
Format1Line(line, f) == F1Date(line, f, Match(line, ReF1Date))

RECURSIVE Format1Loop(_, _, _)
F1Continue(lines, i, r) == IF r.ok THEN Format1Loop(lines, i + 1, r.v) ELSE r
Format1Loop(lines, i, f) ==
    IF i > Len(lines) THEN Return(f)
    ELSE F1Continue(lines, i, Format1Line(lines[i], f))

F1Finish(r) ==
    IF r.ok THEN Complete("Failed to parse Format 1. Missing fields: ", r.v) ELSE r
parseFormat1(lines) == F1Finish(Format1Loop(lines, 1, NoFields))

\* the object literal of parseFormat1SingleLine (lines 138-143, 148-153):
\* the properties are evaluated in order, the first normalizer that throws
\* ends the call; nothing checks the description
SingleLineFields(d, description, a, b) ==
    IF ~d.ok THEN d
    ELSE IF ~a.ok THEN a
    ELSE IF ~b.ok THEN b
    ELSE Return([ date |-> d.v, description |-> description,
                  amount |-> a.v, balance |-> b.v ])
SingleLineRecord(text, dateMatch, descMatch, amountMatch, balanceMatch) ==
    SingleLineFields(parseDate(trim(Group(text, dateMatch, 1))),
                     trim(Group(text, descMatch, 1)),
                     parseAmount(trim(Group(text, amountMatch, 1)), FALSE),
                     parseBalance(trim(Group(text, balanceMatch, 1))))

\* lines 133-146
SingleLineFallback(text, dateMatch, descMatch, amountMatch, balanceFallback) ==
    IF dateMatch.ok /\ descMatch.ok /\ amountMatch.ok /\ balanceFallback.ok
    THEN SingleLineRecord(text, dateMatch, descMatch, amountMatch, balanceFallback)
    ELSE Throw("Failed to parse single-line Format 1", << >>, NoFlags)
SingleLine(text, dateMatch, descMatch, amountMatch, balanceMatch) ==
    IF ~dateMatch.ok \/ ~descMatch.ok \/ ~amountMatch.ok \/ ~balanceMatch.ok
    THEN SingleLineFallback(text, dateMatch, descMatch, amountMatch,
                            Match(text, ReSLBalanceFallback))
    ELSE SingleLineRecord(text, dateMatch, descMatch, amountMatch, balanceMatch)
parseFormat1SingleLine(text) ==
    SingleLine(text, Match(text, ReSLDate), Match(text, ReSLDescription),
               Match(text, ReSLAmount), Match(text, ReSLBalance))

\* ------------------------------------------------------------ Format 2 (inline, arrows)

\* line.includes(ARROW) || line.includes(EMDASH) || line.includes(ENDASH)
HasGlyph(s) ==
    includes(s, << ARROW >>) \/ includes(s, << EMDASH >>) \/ includes(s, << ENDASH >>)
\* line.match(/\d{1,2}\/\d{1,2}\/\d{4}/) || line.match(/\d{1,2}\s+[A-Za-z]{3}\s+\d{4}/)
HasDatePattern(s) == Test(s, ReSlashPattern) \/ Test(s, ReDMonYPattern)

\* line 190
Format2IsDebit(line) ==
    includes(toLowerCase(line), sDebited) \/ includes(toLowerCase(line), toLowerCase(sDr))

\* lines 180-192: the date+amount branch
F2DateOf(line, f, dateMatch) ==
    IF dateMatch.ok THEN parseDate(Group(line, dateMatch, 1)) ELSE Return(f.date)
F2AmountOf(line, f, amountMatch) ==
    IF amountMatch.ok
    THEN parseAmount(Group(line, amountMatch, 1), Format2IsDebit(line))
    ELSE Return(f.amount)
F2SetDateAmount(f, d, a) ==
    IF ~d.ok THEN d
    ELSE IF ~a.ok THEN a
    ELSE Return([ f EXCEPT !.date = d.v, !.amount = a.v ])
Format2DateAmount(line, f) ==
    F2SetDateAmount(f,
        F2DateOf(line, f, FirstOk(Match(line, ReSlashPattern), Match(line, ReDMonYPattern))),
        F2AmountOf(line, f, Match(line, ReF2Amount)))

\* lines 196-199: the balance branch
Format2Balance(line, f, balanceMatch) ==
    IF balanceMatch.ok
    THEN SetBalance(f, parseBalance(Group(line, balanceMatch, 1)))
    ELSE Return(f)

\* the loop step that takes a description only before the date line
F2ClassifyBeforeDate(line, f, glyph, datePattern, available) ==
    IF ~glyph /\ ~datePattern /\ ~available
    THEN IF f.description = << >> /\ f.date = Null
         THEN Return([ f EXCEPT !.description = trim(line) ])
         ELSE Return(f)
    ELSE IF glyph /\ datePattern
    THEN Format2DateAmount(line, f)
    ELSE IF available
    THEN Format2Balance(line, f, Match(line, ReF2Balance))
    ELSE Return(f)
\* one iteration of the loop of parseFormat2 (lines 168-201)
F2Classify(line, f, glyph, datePattern, available) ==
    IF ~glyph /\ ~datePattern /\ ~available
    THEN IF f.description = << >>
         THEN Return([ f EXCEPT !.description = trim(line) ])
         ELSE Return(f)
    ELSE IF glyph /\ datePattern
    THEN Format2DateAmount(line, f)
    ELSE IF available
    THEN Format2Balance(line, f, Match(line, ReF2Balance))
    ELSE Return(f)
Format2Line(line, f) ==
    F2Classify(line, f, HasGlyph(line), HasDatePattern(line), Test(line, ReAvailableBalance))

RECURSIVE Format2Loop(_, _, _)
F2Continue(lines, i, r) == IF r.ok THEN Format2Loop(lines, i + 1, r.v) ELSE r
Format2Loop(lines, i, f) ==
    IF i > Len(lines) THEN Return(f)
    ELSE F2Continue(lines, i, Format2Line(lines[i], f))

F2Finish(r) ==
    IF r.ok THEN Complete("Failed to parse Format 2. Missing fields: ", r.v) ELSE r
parseFormat2(lines) == F2Finish(Format2Loop(lines, 1, NoFields))

\* ------------------------------------------------------------ Format 3 (compact)

\* description.replace(/^txn\w*\s*/i, '')
StripTxnAt(s, m) == IF m.ok THEN SubSeq(s, m.end, Len(s)) ELSE s
StripTxn(s) == StripTxnAt(s, Match(s, ReTxnPrefix))
\* description.replace(/\s+/g, ' ')
CollapseSpaces(s) ==
    SelectSeq([ i \in 1..Len(s) |->
                  IF s[i] \notin White THEN s[i]
                  ELSE IF i > 1 /\ s[i - 1] \in White THEN "DEL" ELSE SP ],
              LAMBDA c : c # "DEL")

\* /Dr|Debit|debited/i.test(text)
Format3IsDebit(text) == Test(text, ReDebitMarker)

\* text.substring(dateEndIndex, amountStartIndex): substring swaps its
\* arguments when the first is the greater
Format3Between(text, dateEndIndex, amountStartIndex) ==
    IF dateEndIndex <= amountStartIndex
    THEN Sub(text, dateEndIndex, amountStartIndex)
    ELSE Sub(text, amountStartIndex, dateEndIndex)
\* lines 241-247
Format3Description(text, dateMatch, amountMatch) ==
    CollapseSpaces(trim(StripTxn(trim(
        Format3Between(text, dateMatch.end, amountMatch.index)))))

\* parseFormat3, statement by statement (lines 216-253)
F3Return(date, amount, balance, description) ==
    IF description = << >>
    THEN Throw("Failed to parse Format 3: No description found", << >>, NoFlags)
    ELSE Return([ date |-> date, description |-> description,
                  amount |-> amount, balance |-> balance ])
F3BalanceParsed(text, dateMatch, date, amountMatch, amount, balance) ==
    IF ~balance.ok THEN balance
    ELSE F3Return(date, amount, balance.v, Format3Description(text, dateMatch, amountMatch))
F3Balance(text, dateMatch, date, amountMatch, amount, balanceMatch) ==
    IF ~balanceMatch.ok
    THEN Throw("Failed to parse Format 3: No balance found", << >>, NoFlags)
    ELSE F3BalanceParsed(text, dateMatch, date, amountMatch, amount,
                         parseBalance(Group(text, balanceMatch, 1)))
F3AmountParsed(text, dateMatch, date, amountMatch, amount) ==
    IF ~amount.ok THEN amount
    ELSE F3Balance(text, dateMatch, date, amountMatch, amount.v, Match(text, ReF3Balance))
F3Amount(text, dateMatch, date, amountMatch) ==
    IF ~amountMatch.ok
    THEN Throw("Failed to parse Format 3: No amount found", << >>, NoFlags)
    ELSE F3AmountParsed(text, dateMatch, date, amountMatch,
                        parseAmount(Group(text, amountMatch, 1), Format3IsDebit(text)))
F3DateParsed(text, dateMatch, date) ==
    IF ~date.ok THEN date
    ELSE F3Amount(text, dateMatch, date.v, Match(text, ReF3Amount))
\* the amount looked for before the date
F3DateAmountFirst(text, dateMatch) ==
    IF ~Test(text, ReF3Amount)
    THEN Throw("Failed to parse Format 3: No amount found", << >>, NoFlags)
    ELSE IF ~dateMatch.ok
    THEN Throw("Failed to parse Format 3: No date found (expected YYYY-MM-DD)", << >>, NoFlags)
    ELSE F3DateParsed(text, dateMatch, parseDate(Group(text, dateMatch, 1)))
F3Date(text, dateMatch) ==
    IF ~dateMatch.ok
    THEN Throw("Failed to parse Format 3: No date found (expected YYYY-MM-DD)", << >>, NoFlags)
    ELSE F3DateParsed(text, dateMatch, parseDate(Group(text, dateMatch, 1)))
parseFormat3(text) == F3Date(text, Match(text, ReIsoPattern))

\* ------------------------------------------------------------ parseTransaction

\* text.trim().replace(/\r\n/g, '\n').replace(/\r/g, '\n')
Normalize(t) == NormalizeBreaks(trim(t))
\* normalized.split('\n').map(line => line.trim()).filter(line => line.length > 0)
LinesOf(normalized) == FilterNonEmpty(MapTrim(SplitLF(normalized)))

\* the choice with the Inline test made before the Labeled one
FirstHandlerInlineFirst(normalized, lines) ==
    IF HasGlyph(normalized) \/ HasDatePattern(normalized)
    THEN "parseFormat2"
    ELSE IF Test(normalized, ReDateLabel)
    THEN IF Len(lines) = 1 \/ ~includes(normalized, << LF >>)
         THEN "parseFormat1SingleLine"
         ELSE "parseFormat1"
    ELSE "parseFormat3"
\* the choice with Inline, not Compact, as the fallback
FirstHandlerInlineLast(normalized, lines) ==
    IF Test(normalized, ReDateLabel)
    THEN IF Len(lines) = 1 \/ ~includes(normalized, << LF >>)
         THEN "parseFormat1SingleLine"
         ELSE "parseFormat1"
    ELSE IF Test(normalized, ReIsoPattern) /\ Test(normalized, ReTxn)
    THEN "parseFormat3"
    ELSE "parseFormat2"
\* lines 35-64: the handler parseTransaction calls first
FirstHandler(normalized, lines) ==
    IF Test(normalized, ReDateLabel)
    THEN IF Len(lines) = 1 \/ ~includes(normalized, << LF >>)
         THEN "parseFormat1SingleLine"
         ELSE "parseFormat1"
    ELSE IF HasGlyph(normalized) \/ HasDatePattern(normalized)
    THEN "parseFormat2"
    ELSE IF Test(normalized, ReIsoPattern) /\ Test(normalized, ReTxn)
    THEN "parseFormat3"
    ELSE "parseFormat3"

\* ------------------------------------------------------------ parseTransaction as one call

\* lines 38-44: the single-line attempt, and parseFormat1(lines) when it throws
AfterSingleLine(r, lines) == IF r.ok THEN r ELSE parseFormat1(lines)
\* lines 35-64: the handler chosen, run on the text
RunHandler(h, normalized, lines) ==
    IF h = "parseFormat1SingleLine"
    THEN AfterSingleLine(parseFormat1SingleLine(normalized), lines)
    ELSE IF h = "parseFormat1" THEN parseFormat1(lines)
    ELSE IF h = "parseFormat2" THEN parseFormat2(lines)
    ELSE parseFormat3(normalized)
ParseLines(normalized, lines) == RunHandler(FirstHandler(normalized, lines), normalized, lines)
ParseNormalized(normalized) == ParseLines(normalized, LinesOf(normalized))
\* lines 25-65
parseTransaction(text) == ParseNormalized(Normalize(text))

\* /\n\s*\n/
ReBlankLine == << One({ LF }), Star(White), One({ LF }) >>
\* text.split(/\n\s*\n/)
RECURSIVE SplitBlocks(_)
SplitAt(t, m) ==
    IF ~m.ok THEN << t >>
    ELSE << SubSeq(t, 1, m.index - 1) >> \o SplitBlocks(SubSeq(t, m.end, Len(t)))
SplitBlocks(t) == SplitAt(t, Match(t, ReBlankLine))
\* .filter(block => block.trim().length > 0)
BlocksOf(t) == SelectSeq(SplitBlocks(t), LAMBDA b : Len(trim(b)) > 0)

\* ------------------------------------------------------------ the state machine

VARIABLES
    op,            \* the exported function the caller invoked
    input,         \* its argument
    pc,            \* where control is
    text,          \* the argument of the current parseTransaction call
    ret,           \* who called parseTransaction: the caller, the block loop, the whole-input attempt
    normalized,    \* parseTransaction's local (line 27)
    lines,         \* parseTransaction's local (line 28)
    called,        \* the handlers the current parseTransaction call has invoked, in order
    result,        \* what the current parseTransaction call returned or threw
    blocks,        \* parseMultipleTransactions' local (line 355)
    bi,            \* the position of the block loop
    transactions,  \* parseMultipleTransactions' local (line 352)
    log,           \* the parseTransaction calls parseMultipleTransactions has completed
    outcome,       \* what the exported function returned or threw to the caller
    dbUsers,         \* the rows of prisma.user
    dbOrganizations, \* the rows of prisma.organization, in order of creation
    dbMembers,       \* the rows of prisma.organizationMember, in order of creation
    dbTransactions,  \* the rows of prisma.transaction, in order of creation
    issued,          \* how many transaction ids the database has handed out
    now,             \* the server's clock, in seconds
    req,             \* the HTTP request being served, and its response once it has one
    pages,           \* the pages given to a client that follows nextCursor
    racers,          \* the requests that are inside authMiddleware at the same time
    slugs            \* the slugs of the organizations created meanwhile

raceVars == << racers, slugs >>
sideVars == << pages, raceVars >>
apiVars == << dbUsers, dbOrganizations, dbMembers, dbTransactions, issued, now, req, sideVars >>
parserVars == << op, input, pc, text, ret, normalized, lines, called, result,
                 blocks, bi, transactions, log, outcome >>
vars == << parserVars, apiVars >>

ptVars    == << text, ret, normalized, lines, called, result >>
batchVars == << blocks, bi, transactions, log >>

\* ------------------------------------------------------------ the inputs

MaxWhite  == 2
MaxBlocks == 3

Join2(a, sep, b) == a \o sep \o b
Join4(a, b, c, d, sep) == a \o sep \o b \o sep \o c \o sep \o d

tDMonY     == << "1", "1", " ", "D", "e", "c", " ", "2", "0", "2", "5" >>
tSlash     == << "1", "2", "/", "1", "1", "/", "2", "0", "2", "5" >>
tSlash2    == << "3", "/", "4", "/", "2", "0", "2", "4" >>
tSlashOver == << "1", "3", "/", "1", "/", "2", "0", "2", "5" >>
tIso       == << "2", "0", "2", "5", "-", "1", "2", "-", "1", "0" >>
tIsoTime   == << "2", "0", "2", "5", "-", "1", "2", "-", "1", "0", "T", "1", "0", ":", "3", "0", ":", "0", "0", "Z" >>
tBadMonth  == << "1", "1", " ", "A", "b", "c", " ", "2", "0", "2", "5" >>
tNoDate    == << "s", "o", "o", "n" >>
tDesc      == << "C", "O", "F", "F", "E", "E", " ", "S", "H", "O", "P" >>
tMinus     == << "-", "4", "2", "0", ".", "0", "0" >>
tPlain     == << "4", "2", "0", ".", "0", "0" >>
tRupee     == << RUPEE, "1", ",", "2", "5", "0", ".", "0", "0" >>
tMinusZero == << "-", "0", ".", "0", "0" >>
tDrAmount  == << "4", "2", "0", ".", "0", "0", " ", "D", "r" >>
tMinusDr   == << "-", "4", "2", "0", ".", "0", "0", " ", "D", "r" >>
tDebited   == << "4", "2", "0", ".", "0", "0", " ", "d", "e", "b", "i", "t", "e", "d" >>
tNoAmount  == << "f", "r", "e", "e" >>
tBalance   == << "1", "8", ",", "4", "2", "0", ".", "5", "0" >>
tBalAfterT == << "B", "a", "l", "a", "n", "c", "e", " ", "a", "f", "t", "e", "r", " ", "t", "r", "a", "n", "s", "a", "c", "t", "i", "o", "n", ":" >>
tBalAfter  == << "B", "a", "l", "a", "n", "c", "e", " ", "a", "f", "t", "e", "r", ":" >>
tGarbage   == << "h", "e", "l", "l", "o", " ", "w", "o", "r", "l", "d" >>
tBalAner    == << "B", "a", "l", "a", "n", "c", "e", " ", "a", "n", "e", "r", " ", "t", "r", "a", "n", "s", "a", "c", "t", "i", "o", "n" >>
tBalNoColon == << "B", "a", "l", "a", "n", "c", "e", " ", "a", "f", "t", "e", "r", " ", "t", "r", "a", "n", "s", "a", "c", "t", "i", "o", "n" >>
tCr         == << "C", "r" >>

DateTokens   == { tDMonY, tSlash, tSlash2, tSlashOver, tIso, tIsoTime, tBadMonth, tNoDate }
AmountTokens == { tMinus, tPlain, tRupee, tMinusZero, tDrAmount, tMinusDr, tDebited, tNoAmount }
Breaks       == { << LF >>, << CR, LF >>, << CR >> }

fDate(d)     == sDate \o << SP >> \o d
fDesc(x)     == sDescription \o << SP >> \o x
fAmount(a)   == sAmount \o << SP >> \o a
fBalance(l)  == l \o << SP >> \o tBalance

\* a labelled transaction, its four fields in the usual order, joined by sep
Labeled(d, a, l, sep) == Join4(fDate(d), fDesc(tDesc), fAmount(a), fBalance(l), sep)

LabeledInputs ==
    { Labeled(d, a, tBalAfterT, sep) :
        d \in DateTokens, a \in { tMinus, tPlain }, sep \in { << LF >>, << SP >> } }
    \cup { Labeled(tDMonY, a, l, sep) :
        a \in AmountTokens, l \in { tBalAfterT, tBalAfter }, sep \in Breaks \cup { << SP >> } }

\* one-line labelled inputs with the fields in another order, with an empty
\* field, or with a label missing
OddLabeledInputs ==
    { Join4(fDesc(tDesc), fDate(tDMonY), fAmount(tMinus), fBalance(tBalAfterT), << SP >>),
      Join4(fDate(tDMonY), fAmount(tMinus), fDesc(tDesc), fBalance(tBalAfterT), << SP >>),
      Join4(fBalance(tBalAfterT), fAmount(tMinus), fDesc(tDesc), fDate(tDMonY), << SP >>),
      Join4(fDate(tDMonY), sDescription, fAmount(tMinus), fBalance(tBalAfterT), << SP >>),
      Join4(fDate(tDMonY), sDescription, fAmount(tMinus), fBalance(tBalAfterT), << LF >>),
      Join4(fDate(tDMonY), fDesc(tDesc), fAmount(tMinus), << >>, << SP >>),
      Join4(fDate(tDMonY), fDesc(tDesc), fAmount(tMinus), << >>, << LF >>),
      Join4(toLowerCase(fDate(tDMonY)), fDesc(tDesc), fAmount(tMinus), fBalance(tBalAfterT), << LF >>),
      fDate(tDMonY), fDate(tSlash) \o << SP, ARROW >> }

\* labelled inputs whose balance label has lost its colon, or whose balance is
\* followed by a credit mark
LooseLabeledInputs ==
    { Labeled(tDMonY, tMinus, l, sep) :
        l \in { tBalAner, tBalNoColon }, sep \in { << LF >>, << SP >> } }
    \cup { Labeled(tDMonY, tMinus, tBalAfterT, sep) \o << SP >> \o tCr :
             sep \in { << LF >>, << SP >> } }

\* the four fields of one transaction, and the texts that hold them in every
\* order, one per line or all on one line
BaseFields == << fDate(tDMonY), fDesc(tDesc), fAmount(tMinus), fBalance(tBalAfterT) >>
Orders == { p \in [ 1..4 -> 1..4 ] : \A i, j \in 1..4 : p[i] = p[j] => i = j }
Ordered(f, p, sep) == Join4(f[p[1]], f[p[2]], f[p[3]], f[p[4]], sep)
PermutedInputs == { Ordered(BaseFields, p, sep) : p \in Orders, sep \in { << LF >>, << SP >> } }

\* labelled inputs with one field left out, or with one label left bare
Labels == << sDate, sDescription, sAmount, tBalAfterT >>
Without(f, k) == SelectSeq([ i \in 1..4 |-> IF i = k THEN << >> ELSE f[i] ], LAMBDA x : x # << >>)
Join3(f, sep) == f[1] \o sep \o f[2] \o sep \o f[3]
LackingInputs ==
    { Join3(Without(BaseFields, k), sep) : k \in 2..4, sep \in { << LF >>, << SP >> } }
    \cup { Ordered([ BaseFields EXCEPT ![k] = Labels[k] ], [ i \in 1..4 |-> i ], sep) :
             k \in 1..4, sep \in { << LF >>, << SP >> } }
    \cup { fDate(tDMonY) \o sep \o fDesc(tDesc) : sep \in { << LF >>, << SP >> } }

tAndroid == << "A", "N", "D", "R", "O", "I", "D", " ", "A", "P", "P" >>
tWhole == << RUPEE, "4", "2", "0" >>
tAvail == << "A", "v", "a", "i", "l", "a", "b", "l", "e", " ", "B", "a", "l", "a", "n", "c", "e", " ", ARROW, " ", RUPEE, "1", "7", ",", "1", "7", "0", ".", "5", "0" >>
\* an inline transaction: description line, date+amount line, balance line
Inline(d, glyph, a, marker, sep) ==
    tDesc \o sep \o d \o << SP >> \o glyph \o << SP >> \o a \o marker \o sep \o tAvail

\* the three lines of an inline transaction
InlineLines ==
    << tDesc, tDMonY \o << SP, EMDASH, SP >> \o tRupee \o << SP >> \o sDebited, tAvail >>
InlineInputs ==
    { Inline(d, << g >>, tRupee, m, sep) :
        d \in { tSlash, tSlash2, tDMonY }, g \in Glyphs,
        m \in { << >>, << SP >> \o sDebited, << SP >> \o sDr }, sep \in { << LF >> } }
    \cup { Inline(tSlash, << ARROW >>, a, << >>, sep) :
        a \in { << "-", RUPEE, "1", ",", "2", "5", "0", ".", "0", "0" >>, << RUPEE, "-", "1", ",", "2", "5", "0", ".", "0", "0" >>, tPlain }, sep \in Breaks }
    \cup { Inline(d, << >>, tRupee, << >>, << LF >>) : d \in { tSlash, tDMonY, tIso } }
    \cup { tDesc \o << SP, ARROW, SP >> \o tRupee }
    \cup { Join3(<< InlineLines[p[1]], InlineLines[p[2]], InlineLines[p[3]] >>, << LF >>) :
             p \in Permutations(1..3) }
    \cup { Inline(tSlash, << ARROW >>, tRupee, << SP >> \o tAndroid, << LF >>),
           Inline(tSlash, << ARROW >>, tRupee, << >>, << LF >>) \o << SP, "o", "n", SP >> \o tSlash2,
           tAndroid \o << LF >> \o tSlash \o << SP, ARROW, SP >> \o tRupee \o << LF >> \o tAvail,
           Inline(tSlash, << ARROW >>, tRupee, << LF >> \o tSlash2 \o << SP, ARROW, SP >> \o tWhole, << LF >>) }

tTxn == << "t", "x", "n", "1", "2", "3" >>
tBal == << "B", "a", "l", " ", "1", "4", "1", "7", "1", ".", "5", "0", " ", "S", "h", "o", "p", "p", "i", "n", "g" >>
\* a compact transaction on one line
Compact(id, d, x, a, marker) ==
    id \o << SP >> \o d \o << SP >> \o x \o << SP >> \o a \o marker \o << SP >> \o tBal

CompactInputs ==
    { Compact(id, tIso, tDesc, a, m) :
        id \in { tTxn, << >> },
        a \in { << RUPEE, "2", ",", "9", "9", "9", ".", "0", "0" >>, << "-", RUPEE, "2", ",", "9", "9", "9", ".", "0", "0" >>, << "2", ",", "9", "9", "9", ".", "0", "0" >> },
        m \in { << >>, << SP >> \o sDr, << SP >> \o sDebit, << SP >> \o sDebited } }
    \cup { Compact(tTxn, tIso, << >>, << RUPEE, "2", ",", "9", "9", "9", ".", "0", "0" >>, << >>),
           tTxn \o << SP >> \o tIso \o << SP >> \o tDesc \o << SP >> \o << RUPEE, "2", ",", "9", "9", "9", ".", "0", "0" >>,
           tGarbage, tTxn \o << SP >> \o tDesc,
           tTxn \o << SP >> \o tIso \o << SP >> \o tDesc,
           tTxn \o << SP >> \o tIso \o << SP >> \o tDesc \o << SP >> \o tBal,
           tDesc \o << SP >> \o tRupee \o << SP >> \o tBal,
           tRupee \o << SP >> \o tIso \o << SP >> \o tDesc \o << SP >> \o tBal,
           tRupee \o << SP >> \o tIso \o << SP >> \o tBal,
           tIso \o << SP >> \o tRupee \o << SP >> \o tBal,
           tIso \o << SP >> \o tTxn \o << SP, SP >> \o tDesc \o << SP, TAB >> \o tDesc
               \o << SP >> \o tRupee \o << SP >> \o tBal,
           tIso \o << SP >> \o tDesc \o << SP >> \o tRupee \o << SP >> \o sBal \o << SP, "," >>,
           Compact(tTxn, tIso, tAndroid, tRupee, << >>) }

\* every string of at most MaxWhite white-space characters
RECURSIVE WhiteStrings(_)
WhiteStrings(n) ==
    IF n = 0 THEN { << >> }
    ELSE LET shorter == WhiteStrings(n - 1)
         IN shorter \cup { Append(w, c) : w \in shorter, c \in White }

Padded ==
    { pre \o t \o post :
        pre \in { << >>, << SP >>, << LF >> }, post \in { << >>, << TAB >>, << CR, LF >> },
        t \in { Labeled(tDMonY, tMinus, tBalAfterT, << LF >>),
                Inline(tSlash, << ARROW >>, tRupee, << SP >> \o sDebited, << LF >>) } }

SingleInputs ==
    LabeledInputs \cup OddLabeledInputs \cup LooseLabeledInputs \cup PermutedInputs
    \cup LackingInputs \cup InlineInputs \cup CompactInputs
    \cup WhiteStrings(MaxWhite) \cup Padded

\* the blocks batch inputs are made of, and the separators between them
BlockPool ==
    { Labeled(tDMonY, tMinus, tBalAfterT, << LF >>),
      Inline(tSlash, << ARROW >>, tRupee, << SP >> \o sDebited, << LF >>),
      Compact(tTxn, tIso, tDesc, << RUPEE, "2", ",", "9", "9", "9", ".", "0", "0" >>, << SP >> \o sDr),
      tGarbage }
BlankLines == { << LF, LF >>, << CR, LF, SP, CR, LF >> }

\* the texts of 1..n blocks of the pool, sep between neighbours
RECURSIVE BatchTexts(_, _)
BatchTexts(n, sep) ==
    IF n = 1 THEN BlockPool
    ELSE LET shorter == BatchTexts(n - 1, sep)
         IN shorter \cup { t \o sep \o b : t \in shorter, b \in BlockPool }

\* two labelled transactions a blank line apart, every line ended by e
TwoStyled(e) ==
    Labeled(tDMonY, tMinus, tBalAfterT, e) \o e \o e \o Labeled(tSlash, tPlain, tBalAfterT, e)

BatchInputs ==
    UNION { BatchTexts(MaxBlocks, sep) : sep \in BlankLines }
    \cup { Labeled(tDMonY, tMinus, tBalAfterT, << LF, LF >>),
           Labeled(tNoDate, tMinus, tBalAfterT, << LF, LF >>),
           Labeled(tBadMonth, tMinus, tBalAfterT, << LF >>) \o << LF, LF >> \o tGarbage,
           << LF, LF >> \o tGarbage \o << LF, LF >>, << >>, << LF, SP, LF >> }
    \cup { TwoStyled(e) : e \in Breaks }

\* ------------------------------------------------------------ the HTTP layer
\* src/backend/src/middleware/auth.ts and the /api/transactions routes of
\* src/backend/src/app.ts, over the tables of the Prisma schema

MaxTx    == 2
MaxClock == 2

\* a header, cookie or query parameter that may be missing
Absent == [ present |-> FALSE, value |-> << >> ]
Present(v) == [ present |-> TRUE, value |-> v ]

\* Date.now(), in milliseconds
DateNow(clock) == clock * 1000

\* the users Better Auth has signed up and the sessions it has opened; the
\* session of userB ran out at second 1.  User ids differ within their first
\* eight characters, as do the slugs made from them.
SignedUp == { [ id |-> "userA", email |-> << "a@mail" >> ],
              [ id |-> "userB", email |-> << "b@mail" >> ] }
SessionRows ==
    { [ id |-> << "sidA" >>, token |-> << "tokA" >>, userId |-> "userA", expiresAt |-> 9000 ],
      [ id |-> << "sidB" >>, token |-> << "tokB" >>, userId |-> "userB", expiresAt |-> 1000 ] }

\* what Buffer.from(part, 'base64url') followed by JSON.parse gives for the
\* payload parts in use; any other part is not JSON.  A missing member is ""
\* (or 0 for exp): as falsy as undefined is wherever the code reads it.
Payloads ==
    [ pA |-> [ id |-> "userA", sub |-> "", email |-> << "a@mail" >>, exp |-> 0 ],
      pB |-> [ id |-> "userB", sub |-> "", email |-> << "b@mail" >>, exp |-> 1 ],
      pX |-> [ id |-> "", sub |-> "userX", email |-> << "x@mail" >>, exp |-> 9 ],
      pY |-> [ id |-> "userY", sub |-> "", email |-> << "a@mail" >>, exp |-> 0 ],
      pN |-> [ id |-> "", sub |-> "", email |-> << >>, exp |-> 0 ] ]

sBearer == << "B", "e", "a", "r", "e", "r", " " >>
sBasic  == << "B", "a", "s", "i", "c", " ", "dXNlcjpwdw" >>
Jwt(payload, signature) == << "eyJhbGciOiJIUzI1NiJ9", ".", payload, ".", signature >>

\* String.prototype.split(".")
RECURSIVE split(_, _)
split(s, ch) ==
    IF \E i \in 1..Len(s) : s[i] = ch
    THEN << SubSeq(s, 1, Min({ i \in 1..Len(s) : s[i] = ch }) - 1) >>
         \o split(SubSeq(s, Min({ i \in 1..Len(s) : s[i] = ch }) + 1, Len(s)), ch)
    ELSE << s >>

NoOne == [ id |-> "", email |-> << >> ]
Session(user) == [ kind |-> "session", user |-> user, error |-> "" ]
NoSession == [ kind |-> "none", user |-> NoOne, error |-> "" ]
Reply(msg) == [ kind |-> "reply", user |-> NoOne, error |-> msg ]

UserRow(users, id) == CHOOSE u \in users : u.id = id

\* auth.ts line 35, auth.api.getSession: Better Auth reads the session cookie
\* (no bearer plugin is configured) and accepts a session that has not run out
LiveSessions(cookie, clock) ==
    { s \in SessionRows : cookie.present /\ s.token = cookie.value /\ s.expiresAt > DateNow(clock) }
getSession(cookie, users, clock) ==
    IF LiveSessions(cookie, clock) # { }
    THEN Session(UserRow(users, (CHOOSE s \in LiveSessions(cookie, clock) : TRUE).userId))
    ELSE NoSession

\* auth.ts lines 62-85: the session made of a decoded payload
SessionFromPayload(p, clock) ==
    IF p.exp # 0 /\ p.exp * 1000 < DateNow(clock)
    THEN Reply("Unauthorized: Token expired")
    ELSE Session([ id |-> IF p.id # "" THEN p.id ELSE p.sub, email |-> p.email ])
\* auth.ts lines 92-115: prisma.session.findFirst by id or token, with its user
SessionFromDb(token, users) ==
    IF \E s \in SessionRows : s.id = token \/ s.token = token
    THEN Session(UserRow(users, (CHOOSE s \in SessionRows : s.id = token \/ s.token = token).userId))
    ELSE Reply("Unauthorized: Invalid or expired token")
IsJson(part) == Len(part) = 1 /\ part[1] \in DOMAIN Payloads
\* auth.ts lines 52-121
ManualSession(token, parts, users, clock) ==
    IF Len(parts) = 3 /\ IsJson(parts[2])
    THEN SessionFromPayload(Payloads[parts[2][1]], clock)
    ELSE SessionFromDb(token, users)
\* auth.ts lines 33-121
SessionOr(session, token, users, clock) ==
    IF session.kind = "session" THEN session
    ELSE ManualSession(token, split(token, "."), users, clock)
SessionOf(token, cookie, users, clock) ==
    SessionOr(getSession(cookie, users, clock), token, users, clock)

\* the tables the middleware writes: [ users, orgs, members ]
HasUser(db, id) == \E u \in db.users : u.id = id
HasMember(db, id) == \E i \in 1..Len(db.members) : db.members[i].userId = id
EmailTaken(db, email) == \E u \in db.users : u.email = email
\* memberships ordered by createdAt, take 1 (auth.ts lines 139-152, 369)
FirstOrg(db, id) ==
    db.members[Min({ i \in 1..Len(db.members) : db.members[i].userId = id })].organizationId
\* userEmail || `user-${userId}@temp.com`
OrEmail(email, id, domain) == IF email # << >> THEN email ELSE << "user-", id, domain >>

WithUser(db, id, email) == [ db EXCEPT !.users = @ \cup { [ id |-> id, email |-> email ] } ]
\* a "Personal" organization and its owner membership
WithOrganization(db, id) ==
    [ db EXCEPT !.orgs = Append(@, [ id |-> Len(db.orgs) + 1, name |-> "Personal" ]),
                !.members = Append(@, [ userId |-> id, organizationId |-> Len(db.orgs) + 1 ]) ]

\* auth.ts lines 155-255: the user is created together with an organization
\* and a membership; a unique-constraint failure (P2002) rolls all three back
FirstProvision(db, id, email) ==
    IF HasUser(db, id) \/ EmailTaken(db, OrEmail(email, id, "@temp.com"))
    THEN db
    ELSE WithOrganization(WithUser(db, id, OrEmail(email, id, "@temp.com")), id)

\* auth.ts lines 262-284: the user the second transaction settles on
ByEmail(db, email) == email # << >> /\ EmailTaken(db, email)
TxUser(db, id, email) ==
    IF HasUser(db, id) THEN id
    ELSE IF ByEmail(db, email) THEN (CHOOSE u \in db.users : u.email = email).id
    ELSE id
SecondCreates(db, id, email) == ~HasUser(db, id) /\ ~ByEmail(db, email)
SecondThrows(db, id, email) ==
    SecondCreates(db, id, email) /\ EmailTaken(db, OrEmail(email, id, "@temp.config"))
\* auth.ts lines 286-320
SecondMember(db, id) == IF HasMember(db, id) THEN db ELSE WithOrganization(db, id)
SecondProvision(db, id, email) ==
    SecondMember(IF SecondCreates(db, id, email)
                 THEN WithUser(db, id, OrEmail(email, id, "@temp.config"))
                 ELSE db,
                 TxUser(db, id, email))

\* what the middleware does with the request: answer 401, or set the context
\* and call next()
Rejected(msg, db, queried) ==
    [ kind |-> "reply", error |-> msg, userId |-> "", organizationId |-> 0,
      db |-> db, queried |-> queried ]
Admitted(db, id) ==
    [ kind |-> "next", error |-> "", userId |-> id, organizationId |-> FirstOrg(db, id),
      db |-> db, queried |-> TRUE ]
\* auth.ts lines 361-382
Settle(db, id) ==
    IF HasUser(db, id) /\ HasMember(db, id)
    THEN Admitted(db, id)
    ELSE Rejected("Unauthorized: Failed to initialize user organization", db, TRUE)
\* auth.ts lines 259-358; what the transaction throws reaches the outer catch (lines 383-393)
AfterFirst(db, id, email) ==
    IF HasUser(db, id) /\ HasMember(db, id) THEN Settle(db, id)
    ELSE IF SecondThrows(db, id, email)
    THEN Rejected("Unauthorized: Token verification failed", db, TRUE)
    ELSE Settle(SecondProvision(db, id, email), TxUser(db, id, email))
\* auth.ts lines 128-358; findUnique with no id throws to the outer catch
Provision(db, user) ==
    IF user.id = "" THEN Rejected("Unauthorized: Token verification failed", db, TRUE)
    ELSE AfterFirst(FirstProvision(db, user.id, user.email), user.id, user.email)
Resolve(session, db) ==
    IF session.kind = "reply" THEN Rejected(session.error, db, TRUE)
    ELSE Provision(db, session.user)
\* the middleware without its test of the Authorization header
authMiddlewareAnyHeader(header, cookie, db, clock) ==
    Resolve(SessionOf(SubSeq(header.value, 8, Len(header.value)), cookie, db.users, clock), db)
\* auth.ts lines 18-394
authMiddleware(header, cookie, db, clock) ==
    IF ~header.present \/ ~startsWith(header.value, sBearer)
    THEN Rejected("Unauthorized: Missing or invalid token", db, FALSE)
    ELSE Resolve(SessionOf(SubSeq(header.value, 8, Len(header.value)), cookie, db.users, clock), db)

\* a request body's text member: missing, not a string, or a string
NoText == [ present |-> FALSE, string |-> FALSE, value |-> << >> ]
NotAString == [ present |-> TRUE, string |-> FALSE, value |-> << >> ]
Str(v) == [ present |-> TRUE, string |-> TRUE, value |-> v ]

\* the request before it is received: no credentials, no parameters, no
\* context, no response
Idle ==
    [ phase |-> "idle", route |-> "none", header |-> Absent, cookie |-> Absent,
      text |-> NoText, limit |-> Absent, cursor |-> Absent, id |-> 0,
      userId |-> "", organizationId |-> 0, queried |-> FALSE,
      status |-> 0, error |-> "", data |-> << >>, nextCursor |-> Absent ]

Bearing(token) == Present(sBearer \o token)
Credentials ==
    { [ header |-> Absent, cookie |-> Absent ],
      [ header |-> Absent, cookie |-> Present(<< "tokA" >>) ],
      [ header |-> Present(sBasic), cookie |-> Absent ],
      [ header |-> Bearing(<< "tokA" >>), cookie |-> Present(<< "tokA" >>) ] }
    \cup { [ header |-> Bearing(t), cookie |-> Absent ] :
             t \in { << "tokB" >>, << "junk" >>, Jwt("pB", "c2lnbmVkLXBC"),
                     Jwt("pA", "dummy_signature"), Jwt("pB", "dummy_signature"),
                     Jwt("pX", "dummy_signature"), Jwt("pY", "dummy_signature"),
                     Jwt("pN", "dummy_signature"), Jwt("bm90IGpzb24", "dummy_signature") } }

GoodText     == Labeled(tDMonY, tMinus, tBalAfterT, << LF >>)
BadMonthText == Labeled(tBadMonth, tMinus, tBalAfterT, << LF >>)
ExtractTexts == { Str(GoodText), Str(BadMonthText), Str(tGarbage), Str(<< >>), NoText, NotAString }

\* Date.prototype.toISOString, and new Date(cursor) of such a text
toISOString(ms) == << ms >>
DateOfIso(s) == s[1]

Calls ==
    { [ Idle EXCEPT !.route = "extract", !.text = t ] : t \in ExtractTexts }
    \cup { [ Idle EXCEPT !.route = "list", !.limit = l, !.cursor = c ] :
             l \in { Absent, Present(<< "1" >>) },
             c \in { Absent, Present(toISOString(DateNow(MaxClock))) } }
    \cup { [ Idle EXCEPT !.route = r, !.id = i ] : r \in { "get", "delete" }, i \in 1..MaxTx }

\* c.json(body, status)
Answer(q, status, error, data, nextCursor) ==
    [ q EXCEPT !.phase = "done", !.status = status, !.error = error,
               !.data = data, !.nextCursor = nextCursor ]

\* app.ts lines 222, 288, 354, 402: !userId || !organizationId
NoContext(q) == q.userId = "" \/ q.organizationId = 0

\* app.ts line 230: !text || typeof text !== "string"
TextMissing(t) == ~t.present \/ ~t.string \/ t.value = << >>

\* app.ts line 269: error.message?.includes("Failed to parse")
sFailedToParse == << "F", "a", "i", "l", "e", "d", " ", "t", "o", " ", "p", "a", "r", "s", "e" >>
PhraseMessages ==
    { "Failed to parse date: ", "Failed to parse amount: ", "Failed to parse balance: ",
      "Failed to parse Format 1. Missing fields: ", "Failed to parse Format 2. Missing fields: ",
      "Failed to parse single-line Format 1",
      "Failed to parse Format 3: No description found",
      "Failed to parse Format 3: No balance found",
      "Failed to parse Format 3: No amount found",
      "Failed to parse Format 3: No date found (expected YYYY-MM-DD)" }
IncludesFailedToParse(r) == r.msg \in PhraseMessages \/ includes(r.raw, sFailedToParse)
\* app.ts lines 265-274
CatchStatus(r) == IF IncludesFailedToParse(r) THEN 400 ELSE 500
CatchError(r) ==
    IF IncludesFailedToParse(r) THEN "Invalid transaction format" ELSE "Failed to extract transaction"

\* app.ts lines 238-248: prisma.transaction.create
NewRow(id, q, v, clock) ==
    [ id |-> id, userId |-> q.userId, organizationId |-> q.organizationId,
      date |-> v.date, description |-> v.description, amount |-> v.amount,
      balance |-> v.balance, rawText |-> q.text.value, createdAt |-> DateNow(clock) ]
\* app.ts lines 251-262
Created(row) ==
    [ id |-> row.id, date |-> row.date, description |-> row.description,
      amount |-> row.amount, balance |-> row.balance, createdAt |-> row.createdAt ]
\* app.ts lines 314-322: the select of the list
Selected(row) ==
    [ id |-> row.id, date |-> row.date, description |-> row.description,
      amount |-> row.amount, balance |-> row.balance, createdAt |-> row.createdAt ]

\* the where clause without the two ownership filters
WhereAnyOwner(rows, q) ==
    SelectSeq(rows, LAMBDA r : q.cursor.present => r.createdAt < DateOfIso(q.cursor.value))
\* app.ts lines 297-306: the where clause of the list
Where(rows, q) ==
    SelectSeq(rows, LAMBDA r : /\ r.userId = q.userId
                               /\ r.organizationId = q.organizationId
                               /\ (q.cursor.present => r.createdAt < DateOfIso(q.cursor.value)))
\* app.ts line 294
Limit(q) == Min({ parseInt(IF q.limit.present /\ q.limit.value # << >>
                           THEN q.limit.value ELSE << "1", "0" >>), 100 })
\* orderBy createdAt desc: the database may give rows of one createdAt in any order
Descending(rows) ==
    { s \in { [ i \in 1..Len(rows) |-> rows[p[i]] ] : p \in Permutations(1..Len(rows)) } :
        \A i \in 1..(Len(s) - 1) : s[i].createdAt >= s[i + 1].createdAt }
Take(s, n) == SubSeq(s, 1, Min({ n, Len(s) }))
MapSelected(s) == [ i \in 1..Len(s) |-> Selected(s[i]) ]
\* app.ts lines 325-337
Page(q, found, limit) ==
    Answer(q, 200, "", MapSelected(Take(found, limit)),
           IF Len(found) > limit /\ Take(found, limit) # << >>
           THEN Present(toISOString(Take(found, limit)[Min({ limit, Len(found) })].createdAt))
           ELSE Absent)

\* findFirst by id alone
FindById(rows, q) == SelectSeq(rows, LAMBDA r : r.id = q.id)
\* app.ts lines 363-369, 411-417: findFirst by id, userId and organizationId
FindOwned(rows, q) ==
    SelectSeq(rows, LAMBDA r : r.id = q.id /\ r.userId = q.userId
                               /\ r.organizationId = q.organizationId)

\* the server before its first request: the signed-up users; userA has a
\* "Personal" organization, userB has none yet
ApiStart ==
    /\ dbUsers = SignedUp
    /\ dbOrganizations = << [ id |-> 1, name |-> "Personal" ] >>
    /\ dbMembers = << [ userId |-> "userA", organizationId |-> 1 ] >>
    /\ dbTransactions = << >>
    /\ issued = 0
    /\ now = 1
    /\ req = Idle
    /\ pages = << >>
    /\ racers = << >>
    /\ slugs = { }

\* ------------------------------------------------------------ the actions

Init ==
    /\ op \in { "parseTransaction", "parseMultipleTransactions" }
    /\ input \in IF op = "parseTransaction" THEN SingleInputs ELSE BatchInputs
    /\ pc = "entry"
    /\ text = << >>
    /\ ret = "none"
    /\ normalized = << >>
    /\ lines = << >>
    /\ called = << >>
    /\ result = Null
    /\ blocks = << >>
    /\ bi = 0
    /\ transactions = << >>
    /\ log = << >>
    /\ outcome = Null
    /\ ApiStart

\* a call of parseTransaction(t) on behalf of who
Call(t, who) ==
    /\ text' = t
    /\ ret' = who
    /\ pc' = "normalize"
    /\ called' = << >>
    /\ result' = Null
    /\ normalized' = << >>
    /\ lines' = << >>

\* the caller invokes parseTransaction(input)
CallParseTransaction ==
    /\ pc = "entry"
    /\ op = "parseTransaction"
    /\ Call(input, "caller")
    /\ UNCHANGED << apiVars, op, input, batchVars, outcome >>

\* lines 27-28
Normalizer ==
    /\ pc = "normalize"
    /\ normalized' = Normalize(text)
    /\ lines' = LinesOf(normalized')
    /\ pc' = "dispatch"
    /\ UNCHANGED << apiVars, op, input, text, ret, called, result, batchVars, outcome >>

\* lines 35-64: the choice of the handler
Dispatch ==
    /\ pc = "dispatch"
    /\ pc' = FirstHandler(normalized, lines)
    /\ UNCHANGED << apiVars, op, input, ptVars, batchVars, outcome >>

SingleLineOutcome(r) ==
    IF r.ok
    THEN result' = r /\ pc' = "return"
    ELSE result' = result /\ pc' = "parseFormat1"

\* lines 38-42: the single-line attempt; a failure is caught and control
\* goes on to parseFormat1(lines)
Format1SingleLine ==
    /\ pc = "parseFormat1SingleLine"
    /\ called' = Append(called, "parseFormat1SingleLine")
    /\ SingleLineOutcome(parseFormat1SingleLine(normalized))
    /\ UNCHANGED << apiVars, op, input, text, ret, normalized, lines, batchVars, outcome >>

\* line 44
Format1 ==
    /\ pc = "parseFormat1"
    /\ called' = Append(called, "parseFormat1")
    /\ result' = parseFormat1(lines)
    /\ pc' = "return"
    /\ UNCHANGED << apiVars, op, input, text, ret, normalized, lines, batchVars, outcome >>

\* line 54
Format2 ==
    /\ pc = "parseFormat2"
    /\ called' = Append(called, "parseFormat2")
    /\ result' = parseFormat2(lines)
    /\ pc' = "return"
    /\ UNCHANGED << apiVars, op, input, text, ret, normalized, lines, batchVars, outcome >>

\* lines 60 and 64
Format3 ==
    /\ pc = "parseFormat3"
    /\ called' = Append(called, "parseFormat3")
    /\ result' = parseFormat3(normalized)
    /\ pc' = "return"
    /\ UNCHANGED << apiVars, op, input, text, ret, normalized, lines, batchVars, outcome >>

\* parseTransaction returns or throws to the caller
ReturnToCaller ==
    /\ pc = "return"
    /\ ret = "caller"
    /\ outcome' = result
    /\ pc' = "done"
    /\ UNCHANGED << apiVars, op, input, ptVars, batchVars >>

\* the caller invokes parseMultipleTransactions(input): lines 352-355
CallParseMultiple ==
    /\ pc = "entry"
    /\ op = "parseMultipleTransactions"
    /\ blocks' = BlocksOf(input)
    /\ transactions' = << >>
    /\ bi' = 1
    /\ pc' = "loop"
    /\ UNCHANGED << apiVars, op, input, ptVars, log, outcome >>

\* line 359: parseTransaction(block) for the next block
LoopCall ==
    /\ pc = "loop"
    /\ bi <= Len(blocks)
    /\ Call(blocks[bi], "loop")
    /\ UNCHANGED << apiVars, op, input, batchVars, outcome >>

\* the push replaced by an insertion at the front
PushedFront(list, r) == IF r.ok THEN << r.v >> \o list ELSE list
\* line 360, inside the try: transactions.push(transaction) when the call
\* returned, nothing when it threw
Pushed(list, r) == IF r.ok THEN Append(list, r.v) ELSE list

\* lines 360-364: a result is pushed, a failure is caught and the loop goes on
LoopCollect ==
    /\ pc = "return"
    /\ ret = "loop"
    /\ transactions' = Pushed(transactions, result)
    /\ log' = Append(log, [ who |-> "loop", arg |-> text, res |-> result ])
    /\ bi' = bi + 1
    /\ pc' = "loop"
    /\ UNCHANGED << apiVars, op, input, ptVars, blocks, outcome >>

\* lines 368 and 376: after the loop, with something parsed
LoopExit ==
    /\ pc = "loop"
    /\ bi > Len(blocks)
    /\ Len(transactions) # 0
    /\ outcome' = Return(transactions)
    /\ pc' = "done"
    /\ UNCHANGED << apiVars, op, input, ptVars, batchVars >>

\* lines 368-370: after the loop, with nothing parsed: parseTransaction(text)
WholeCall ==
    /\ pc = "loop"
    /\ bi > Len(blocks)
    /\ Len(transactions) = 0
    /\ Call(input, "whole")
    /\ UNCHANGED << apiVars, op, input, batchVars, outcome >>

\* the list returned whether or not the whole-input attempt parsed
WholeOutcomeQuiet(list, r) == Return(IF r.ok THEN Append(list, r.v) ELSE list)
\* lines 369-376: the whole-input attempt is pushed and the list returned,
\* or its failure is replaced by the failure of the batch
WholeOutcome(list, r) ==
    IF r.ok
    THEN Return(Pushed(list, r))
    ELSE Throw("Failed to parse any transactions from text", << >>, NoFlags)

WholeReturn ==
    /\ pc = "return"
    /\ ret = "whole"
    /\ transactions' = Pushed(transactions, result)
    /\ log' = Append(log, [ who |-> "whole", arg |-> text, res |-> result ])
    /\ outcome' = WholeOutcome(transactions, result)
    /\ pc' = "done"
    /\ UNCHANGED << apiVars, op, input, ptVars, blocks, bi >>

Next ==
    \/ CallParseTransaction
    \/ Normalizer
    \/ Dispatch
    \/ Format1SingleLine
    \/ Format1
    \/ Format2
    \/ Format3
    \/ ReturnToCaller
    \/ CallParseMultiple
    \/ LoopCall
    \/ LoopCollect
    \/ LoopExit
    \/ WholeCall
    \/ WholeReturn

Spec == Init /\ [][Next]_vars

\* ------------------------------------------------------------ the HTTP actions

ApiInit ==
    /\ op = "serve"
    /\ input = << >>
    /\ pc = "serve"
    /\ text = << >>
    /\ ret = "none"
    /\ normalized = << >>
    /\ lines = << >>
    /\ called = << >>
    /\ result = Null
    /\ blocks = << >>
    /\ bi = 0
    /\ transactions = << >>
    /\ log = << >>
    /\ outcome = Null
    /\ ApiStart

tables == << dbUsers, dbOrganizations, dbMembers >>

\* a client sends a request to one of the /api/transactions routes
Receive ==
    /\ req.phase = "idle"
    /\ \E c \in Credentials, q \in Calls :
          /\ q.route = "extract" => issued < MaxTx
          /\ req' = [ q EXCEPT !.phase = "middleware", !.header = c.header, !.cookie = c.cookie ]
    /\ UNCHANGED << parserVars, sideVars, tables, dbTransactions, issued, now >>

\* what the middleware decided: the tables as it left them, and either the
\* 401 answer or the context for the handler
Enter(a) ==
    /\ dbUsers' = a.db.users
    /\ dbOrganizations' = a.db.orgs
    /\ dbMembers' = a.db.members
    /\ req' = IF a.kind = "next"
              THEN [ req EXCEPT !.phase = "handler", !.userId = a.userId,
                                !.organizationId = a.organizationId, !.queried = a.queried ]
              ELSE [ Answer(req, 401, a.error, << >>, Absent) EXCEPT !.queried = a.queried ]

\* app.ts line 209: transactionRoutes.use("*", authMiddleware)
AuthMiddleware ==
    /\ req.phase = "middleware"
    /\ Enter(authMiddleware(req.header, req.cookie,
                            [ users |-> dbUsers, orgs |-> dbOrganizations, members |-> dbMembers ],
                            now))
    /\ UNCHANGED << parserVars, sideVars, dbTransactions, issued, now >>

\* app.ts lines 235-274: the row is stored and answered 201, or the failure is
\* caught and answered
ExtractOutcome(r) ==
    IF r.ok
    THEN /\ dbTransactions' = Append(dbTransactions, NewRow(issued + 1, req, r.v, now))
         /\ issued' = issued + 1
         /\ req' = Answer(req, 201, "", << Created(NewRow(issued + 1, req, r.v, now)) >>, Absent)
    ELSE /\ req' = Answer(req, CatchStatus(r), CatchError(r), << >>, Absent)
         /\ UNCHANGED << dbTransactions, issued >>

\* POST /api/transactions/extract, app.ts lines 216-275
Extract ==
    /\ req.phase = "handler"
    /\ req.route = "extract"
    /\ IF NoContext(req)
       THEN req' = Answer(req, 401, "Unauthorized", << >>, Absent)
            /\ UNCHANGED << dbTransactions, issued >>
       ELSE IF TextMissing(req.text)
       THEN req' = Answer(req, 400, "Text is required", << >>, Absent)
            /\ UNCHANGED << dbTransactions, issued >>
       ELSE ExtractOutcome(parseTransaction(req.text.value))
    /\ UNCHANGED << parserVars, sideVars, tables, now >>

\* GET /api/transactions, app.ts lines 282-341
ListHandler ==
    /\ req.phase = "handler"
    /\ req.route = "list"
    /\ IF NoContext(req)
       THEN req' = Answer(req, 401, "Unauthorized", << >>, Absent)
       ELSE \E found \in Descending(Where(dbTransactions, req)) :
               req' = Page(req, Take(found, Limit(req) + 1), Limit(req))
    /\ UNCHANGED << parserVars, tables, dbTransactions, issued, now >>
List ==
    /\ ListHandler
    /\ UNCHANGED sideVars

\* GET /api/transactions/:id, app.ts lines 348-389
GetOne ==
    /\ req.phase = "handler"
    /\ req.route = "get"
    /\ req' = IF NoContext(req) THEN Answer(req, 401, "Unauthorized", << >>, Absent)
              ELSE IF FindOwned(dbTransactions, req) = << >>
              THEN Answer(req, 404, "Transaction not found", << >>, Absent)
              ELSE Answer(req, 200, "", << FindOwned(dbTransactions, req)[1] >>, Absent)
    /\ UNCHANGED << parserVars, sideVars, tables, dbTransactions, issued, now >>

\* DELETE /api/transactions/:id, app.ts lines 396-441
Delete ==
    /\ req.phase = "handler"
    /\ req.route = "delete"
    /\ IF NoContext(req)
       THEN req' = Answer(req, 401, "Unauthorized", << >>, Absent)
            /\ UNCHANGED dbTransactions
       ELSE IF FindOwned(dbTransactions, req) = << >>
       THEN req' = Answer(req, 404, "Transaction not found", << >>, Absent)
            /\ UNCHANGED dbTransactions
       ELSE /\ dbTransactions' = SelectSeq(dbTransactions, LAMBDA r : r.id # req.id)
            /\ req' = Answer(req, 200, "", << >>, Absent)
    /\ UNCHANGED << parserVars, sideVars, tables, issued, now >>

\* the response is sent and the server is free for the next request
Respond ==
    /\ req.phase = "done"
    /\ req' = Idle
    /\ UNCHANGED << parserVars, sideVars, tables, dbTransactions, issued, now >>

\* a second passes
Tick ==
    /\ now < MaxClock
    /\ now' = now + 1
    /\ UNCHANGED << parserVars, sideVars, tables, dbTransactions, issued, req >>

ApiNext ==
    \/ Receive
    \/ AuthMiddleware
    \/ Extract
    \/ List
    \/ GetOne
    \/ Delete
    \/ Respond
    \/ Tick

ApiSpec == ApiInit /\ [][ApiNext]_vars

\* ------------------------------------------------------------ a client paging through its list

MaxRows == 3

\* the context of a request admitted as userA, and the record of GoodText
AsUserA == [ Idle EXCEPT !.userId = "userA", !.organizationId = 1, !.text = Str(GoodText) ]
\* the times n transactions were created at, in order of creation
Stamps(n) == { st \in [ 1..n -> 1..MaxClock ] : \A i \in 1..(n - 1) : st[i] <= st[i + 1] }
StoredRows(v) ==
    UNION { { [ i \in 1..n |-> NewRow(i, AsUserA, v, st[i]) ] : st \in Stamps(n) } :
              n \in 0..MaxRows }
\* the limits the client asks for
LimitTexts == { << "1" >>, << "2" >>, << "3" >>, << "1", "0", "0" >> }

\* userA has stored some transactions; nothing is written from here on
PageInit ==
    /\ op = "serve"
    /\ input = << >>
    /\ pc = "serve"
    /\ text = << >>
    /\ ret = "none"
    /\ normalized = << >>
    /\ lines = << >>
    /\ called = << >>
    /\ result = Null
    /\ blocks = << >>
    /\ bi = 0
    /\ transactions = << >>
    /\ log = << >>
    /\ outcome = Null
    /\ dbUsers = SignedUp
    /\ dbOrganizations = << [ id |-> 1, name |-> "Personal" ] >>
    /\ dbMembers = << [ userId |-> "userA", organizationId |-> 1 ] >>
    /\ dbTransactions \in StoredRows(parseTransaction(GoodText).v)
    /\ issued = Len(dbTransactions)
    /\ now = MaxClock
    /\ req = Idle
    /\ pages = << >>
    /\ racers = << >>
    /\ slugs = { }

\* the client asks for the first page, or for the page after the last one it
\* was given, with that page's nextCursor and the same limit
Follow ==
    /\ req.phase = "idle"
    /\ \E l \in LimitTexts :
          /\ pages # << >> => (pages[Len(pages)].nextCursor.present /\ l = pages[1].limit.value)
          /\ req' = [ Idle EXCEPT !.phase = "middleware", !.route = "list",
                                  !.header = Bearing(<< "tokA" >>),
                                  !.cookie = Present(<< "tokA" >>),
                                  !.limit = Present(l),
                                  !.cursor = IF pages = << >> THEN Absent
                                             ELSE pages[Len(pages)].nextCursor ]
    /\ UNCHANGED << parserVars, sideVars, tables, dbTransactions, issued, now >>

\* the list handler answers and the client keeps the page
PageList ==
    /\ ListHandler
    /\ pages' = Append(pages, req')
    /\ UNCHANGED raceVars

PageNext ==
    \/ Follow
    \/ AuthMiddleware
    \/ PageList
    \/ Respond

PageSpec == PageInit /\ [][PageNext]_vars

\* ------------------------------------------------------------ concurrent requests
\* Several requests of one user are inside authMiddleware at the same time.
\* Each await of auth.ts lines 139-358 is a step of its own; a $transaction
\* that writes takes effect as a whole when it commits, and what it read
\* before (READ COMMITTED, the default of PostgreSQL) may be stale by then.

MaxRacers == 2
\* the users of the sessions: one with an organization, one signed up
\* without, one unknown to the database, one unknown with a known email
RaceUsers ==
    { [ id |-> "userA", email |-> << "a@mail" >> ],
      [ id |-> "userB", email |-> << "b@mail" >> ],
      [ id |-> "userX", email |-> << "x@mail" >> ],
      [ id |-> "userY", email |-> << "a@mail" >> ] }
\* a request whose session is resolved (auth.ts lines 128-130)
Racer(u) ==
    [ pc |-> "find", userId |-> u.id, email |-> u.email, txUser |-> "", creates |-> FALSE,
      status |-> 0, error |-> "", organizationId |-> 0 ]

RaceInit ==
    /\ op = "serve"
    /\ input = << >>
    /\ pc = "serve"
    /\ text = << >>
    /\ ret = "none"
    /\ normalized = << >>
    /\ lines = << >>
    /\ called = << >>
    /\ result = Null
    /\ blocks = << >>
    /\ bi = 0
    /\ transactions = << >>
    /\ log = << >>
    /\ outcome = Null
    /\ dbUsers = SignedUp
    /\ dbOrganizations = << [ id |-> 1, name |-> "Personal" ] >>
    /\ dbMembers = << [ userId |-> "userA", organizationId |-> 1 ] >>
    /\ dbTransactions = << >>
    /\ issued = 0
    /\ now = 1
    /\ req = Idle
    /\ pages = << >>
    /\ \E u \in RaceUsers : racers = [ i \in 1..MaxRacers |-> Racer(u) ]
    /\ slugs = { }

Db == [ users |-> dbUsers, orgs |-> dbOrganizations, members |-> dbMembers ]
\* `personal-${id.substring(0, 8)}-${Date.now()}`
Slug(id, clock) == << id, DateNow(clock) >>
\* auth.ts lines 361-375: the context is set and next() is called
Passed(r, db) ==
    [ r EXCEPT !.pc = "done", !.status = 200, !.organizationId = FirstOrg(db, r.userId) ]
\* auth.ts lines 363-366 and 383-393
Refused(r, msg) == [ r EXCEPT !.pc = "done", !.status = 401, !.error = msg ]
Committed(db) ==
    /\ dbUsers' = db.users
    /\ dbOrganizations' = db.orgs
    /\ dbMembers' = db.members

\* auth.ts lines 139-152: findUnique with the first membership
RaceFind(i) ==
    /\ racers[i].pc = "find"
    /\ racers' = [ racers EXCEPT ![i] =
                     IF ~HasUser(Db, @.userId) THEN [ @ EXCEPT !.pc = "create" ]
                     ELSE IF ~HasMember(Db, @.userId) THEN [ @ EXCEPT !.pc = "ensure" ]
                     ELSE Passed(@, Db) ]
    /\ UNCHANGED << parserVars, tables, dbTransactions, issued, now, req, pages, slugs >>

\* a unique constraint of the first transaction fails: the id or the email of
\* the user, or the slug of the organization
FirstFails(db, r, clock) ==
    \/ HasUser(db, r.userId)
    \/ EmailTaken(db, OrEmail(r.email, r.userId, "@temp.com"))
    \/ Slug(r.userId, clock) \in slugs
\* auth.ts lines 155-241: the first transaction commits, or fails with P2002
\* and writes nothing; the user is fetched again either way
RaceCreate(i) ==
    /\ racers[i].pc = "create"
    /\ IF FirstFails(Db, racers[i], now)
       THEN UNCHANGED << tables, slugs >>
       ELSE /\ Committed(FirstProvision(Db, racers[i].userId, racers[i].email))
            /\ slugs' = slugs \cup { Slug(racers[i].userId, now) }
    /\ racers' = [ racers EXCEPT ![i].pc = "refetch" ]
    /\ UNCHANGED << parserVars, dbTransactions, issued, now, req, pages >>

\* auth.ts lines 208-221 or 224-241, then line 259
RaceRefetch(i) ==
    /\ racers[i].pc = "refetch"
    /\ racers' = [ racers EXCEPT ![i] =
                     IF HasUser(Db, @.userId) /\ HasMember(Db, @.userId)
                     THEN Passed(@, Db)
                     ELSE [ @ EXCEPT !.pc = "ensure" ] ]
    /\ UNCHANGED << parserVars, tables, dbTransactions, issued, now, req, pages, slugs >>

\* the request after the reads of the second transaction
Ensured(r, db) ==
    IF ~SecondCreates(db, r.userId, r.email) /\ HasMember(db, TxUser(db, r.userId, r.email))
    THEN [ r EXCEPT !.pc = "fetch", !.userId = TxUser(db, r.userId, r.email) ]
    ELSE [ r EXCEPT !.pc = "write",
                    !.txUser = TxUser(db, r.userId, r.email),
                    !.creates = SecondCreates(db, r.userId, r.email) ]
\* auth.ts lines 264-298: the reads of the second transaction; with a
\* membership found the transaction ends here (lines 294-297, 325-328)
RaceEnsure(i) ==
    /\ racers[i].pc = "ensure"
    /\ racers' = [ racers EXCEPT ![i] = Ensured(racers[i], Db) ]
    /\ UNCHANGED << parserVars, tables, dbTransactions, issued, now, req, pages, slugs >>

\* a unique constraint of the second transaction fails
SecondFails(db, r, clock) ==
    \/ r.creates /\ (HasUser(db, r.userId)
                     \/ EmailTaken(db, OrEmail(r.email, r.userId, "@temp.config")))
    \/ Slug(r.txUser, clock) \in slugs
\* the tables after the writes of the second transaction
SecondWrites(db, r) ==
    WithOrganization(IF r.creates
                     THEN WithUser(db, r.userId, OrEmail(r.email, r.userId, "@temp.config"))
                     ELSE db,
                     r.txUser)
\* auth.ts lines 280-328: the writes of the second transaction commit, or it
\* throws to the outer catch (lines 351, 383-393)
RaceWrite(i) ==
    /\ racers[i].pc = "write"
    /\ IF SecondFails(Db, racers[i], now)
       THEN /\ racers' = [ racers EXCEPT ![i] =
                             Refused(@, "Unauthorized: Token verification failed") ]
            /\ UNCHANGED << tables, slugs >>
       ELSE /\ Committed(SecondWrites(Db, racers[i]))
            /\ slugs' = slugs \cup { Slug(racers[i].txUser, now) }
            /\ racers' = [ racers EXCEPT ![i].pc = "fetch", ![i].userId = racers[i].txUser ]
    /\ UNCHANGED << parserVars, dbTransactions, issued, now, req, pages >>

\* auth.ts lines 331-375: the last fetch, and the context or 401
RaceFetch(i) ==
    /\ racers[i].pc = "fetch"
    /\ racers' = [ racers EXCEPT ![i] =
                     IF HasUser(Db, @.userId) /\ HasMember(Db, @.userId)
                     THEN Passed(@, Db)
                     ELSE Refused(@, "Unauthorized: Failed to initialize user organization") ]
    /\ UNCHANGED << parserVars, tables, dbTransactions, issued, now, req, pages, slugs >>

RaceNext ==
    \/ \E i \in 1..MaxRacers : RaceFind(i)
    \/ \E i \in 1..MaxRacers : RaceCreate(i)
    \/ \E i \in 1..MaxRacers : RaceRefetch(i)
    \/ \E i \in 1..MaxRacers : RaceEnsure(i)
    \/ \E i \in 1..MaxRacers : RaceWrite(i)
    \/ \E i \in 1..MaxRacers : RaceFetch(i)
    \/ Tick

RaceSpec == RaceInit /\ [][RaceNext]_vars


\* ------------------------------------------------------------ properties

\* parseTransaction(text) has just produced `result`: a record or a failure
Returned == pc = "return"
Succeeded == Returned /\ result.ok

Family(handler) ==
    IF handler \in { "parseFormat1SingleLine", "parseFormat1" } THEN "Labeled"
    ELSE IF handler = "parseFormat2" THEN "Inline"
    ELSE "Compact"

\* t holds w somewhere, letter case ignored
ContainsFold(t, w) ==
    \E i \in 1..(Len(t) - Len(w) + 1) :
        \A k \in 1..Len(w) : ToLowerCh(t[i + k - 1]) = ToLowerCh(w[k])

AllDigits(t, i, n) == i >= 1 /\ i + n - 1 <= Len(t) /\ \A k \in i..(i + n - 1) : t[k] \in Digit
CharAt(t, i, set) == i >= 1 /\ i <= Len(t) /\ t[i] \in set
AllIn(t, i, n, set) == n >= 1 /\ i >= 1 /\ i + n - 1 <= Len(t) /\ \A k \in i..(i + n - 1) : t[k] \in set

\* t holds, from position i, a digits of month/day, "/", b digits, "/", 4 digits
SlashAt(t, i, a, b) ==
    /\ AllDigits(t, i, a)
    /\ CharAt(t, i + a, { "/" })
    /\ AllDigits(t, i + a + 1, b)
    /\ CharAt(t, i + a + b + 1, { "/" })
    /\ AllDigits(t, i + a + b + 2, 4)
HoldsSlashDate(t) == \E i \in 1..Len(t), a \in 1..2, b \in 1..2 : SlashAt(t, i, a, b)

\* t holds, from position i, a digits, v white characters, 3 letters, w white
\* characters, 4 digits
DMonYAt(t, i, a, v, w) ==
    /\ AllDigits(t, i, a)
    /\ AllIn(t, i + a, v, White)
    /\ AllIn(t, i + a + v, 3, Alpha)
    /\ AllIn(t, i + a + v + 3, w, White)
    /\ AllDigits(t, i + a + v + w + 3, 4)
HoldsDMonYDate(t) ==
    \E i \in 1..Len(t), a \in 1..2 :
        /\ AllDigits(t, i, a)
        /\ \E v \in 1..Len(t) :
              /\ AllIn(t, i + a, v, White)
              /\ \E w \in 1..Len(t) : DMonYAt(t, i, a, v, w)

HoldsGlyph(t) == \E i \in 1..Len(t) : t[i] \in Glyphs

\* the family the ordered choice assigns to a normalized text
FamilyOf(t) ==
    IF ContainsFold(t, sDate) THEN "Labeled"
    ELSE IF HoldsGlyph(t) \/ HoldsSlashDate(t) \/ HoldsDMonYDate(t) THEN "Inline"
    ELSE "Compact"

\* what the handler named h returns for the text at hand
HandlerOutcome(h) ==
    IF h = "parseFormat1SingleLine" THEN parseFormat1SingleLine(normalized)
    ELSE IF h = "parseFormat1" THEN parseFormat1(lines)
    ELSE IF h = "parseFormat2" THEN parseFormat2(lines)
    ELSE parseFormat3(normalized)

IsDate(d) == DOMAIN d = { "day", "ms" }
IsNumber(n) == DOMAIN n = { "neg", "m", "e" }

\* C1: a record parseTransaction returns has all four fields resolved: a valid
\* date, a non-empty description, a numeric amount and a numeric balance.
C1_AllFieldsResolved ==
    Succeeded =>
        /\ IsDate(result.v.date)
        /\ result.v.description # << >>
        /\ IsNumber(result.v.amount)
        /\ IsNumber(result.v.balance)

\* C2: the handler family is an ordered choice over the normalized text:
\* Labeled when it holds "Date:" in any letter case, else Inline when it holds
\* a glyph or a slash or day-month-year date, else Compact. Every call runs
\* handlers of exactly that family, and what it yields is what the last
\* handler it ran yields.
C2_OrderedDispatch ==
    /\ pc \in { "parseFormat1SingleLine", "parseFormat1", "parseFormat2", "parseFormat3" }
          => Family(pc) = FamilyOf(normalized)
    /\ Returned =>
          /\ called # << >>
          /\ \A i \in 1..Len(called) : Family(called[i]) = FamilyOf(normalized)
          /\ result = HandlerOutcome(called[Len(called)])

\* a Labeled text that also holds a date pattern and a glyph went to Labeled
C2_Witness ==
    /\ Returned
    /\ ContainsFold(normalized, sDate)
    /\ HoldsGlyph(normalized)
    /\ HoldsSlashDate(normalized)
    /\ called = << "parseFormat1SingleLine", "parseFormat1" >>

\* a minus sign written before the amount: before a digit or the currency
\* sign, and not the hyphen of a date or of an identifier
HoldsMinus(t) ==
    \E i \in 1..(Len(t) - 1) :
        /\ t[i] = "-"
        /\ t[i + 1] \in Digit \cup { RUPEE }
        /\ (i = 1 \/ t[i - 1] \notin Digit)
\* the word w stands in t as a word of its own, letter case ignored
HoldsWord(t, w) ==
    \E i \in 1..(Len(t) - Len(w) + 1) :
        /\ \A k \in 1..Len(w) : ToLowerCh(t[i + k - 1]) = ToLowerCh(w[k])
        /\ (i = 1 \/ t[i - 1] \in White)
        /\ (i + Len(w) > Len(t) \/ t[i + Len(w)] \in White)
HoldsDebitMarker(t) == HoldsWord(t, sDr) \/ HoldsWord(t, sDebit) \/ HoldsWord(t, sDebited)

\* C3: a parsed transaction whose amount carries a minus sign or a debit
\* marker (debited, Dr, Debit) has a strictly negative amount, and one with
\* neither has a non-negative amount (amounts of zero set aside).
C3_DebitIsNegative ==
    (Succeeded /\ ~IsZero(result.v.amount)) =>
        IF HoldsMinus(normalized) \/ HoldsDebitMarker(normalized)
        THEN IsNegative(result.v.amount)
        ELSE ~result.v.amount.neg

Digits2(t, i, n) == IF n = 1 THEN DigitVal(t[i]) ELSE 10 * DigitVal(t[i]) + DigitVal(t[i + 1])
Digits4(t, i) == 100 * Digits2(t, i, 2) + Digits2(t, i + 2, 2)
\* a whole slash token: no digit before it, none after it
SlashTokenAt(t, i, a, b) ==
    /\ SlashAt(t, i, a, b)
    /\ ~CharAt(t, i - 1, Digit)
    /\ ~CharAt(t, i + a + b + 6, Digit)
\* the calendar date of the token read as month/day/year, the month carried
\* into the next years when it exceeds 12
MonthFirst(month, day, year) ==
    [ year |-> year + ((month - 1) \div 12), month |-> ((month - 1) % 12) + 1, date |-> day ]

\* the whole slash tokens of t
SlashTokens(t) ==
    { p \in (1..Len(t)) \X (1..2) \X (1..2) : SlashTokenAt(t, p[1], p[2], p[3]) }

\* C4: a slash date is read month first: the record's date is the day given
\* by the second number in the month given by the first ("12/11/2025" is
\* 11 December 2025), in every handler that is handed one. (Stated for the
\* texts that hold one slash date, the one the handler passes on.)
C4_SlashIsMonthDay ==
    (Succeeded /\ Cardinality(SlashTokens(normalized)) = 1) =>
        \A i \in 1..Len(normalized), a \in 1..2, b \in 1..2 :
            (SlashTokenAt(normalized, i, a, b) /\ Digits2(normalized, i + a + 1, b) \in 1..28)
            => UTCFields(result.v.date) =
                   MonthFirst(Digits2(normalized, i, a), Digits2(normalized, i + a + 1, b),
                              Digits4(normalized, i + a + b + 2))

C4_Witness ==
    /\ Succeeded
    /\ called = << "parseFormat2" >>
    /\ includes(normalized, tSlash)
    /\ Cardinality(SlashTokens(normalized)) = 1
    /\ UTCFields(result.v.date) = [ year |-> 2025, month |-> 12, date |-> 11 ]

\* C5: every date parseTransaction returns has zero time of day.
C5_DatesAreUtcMidnight ==
    Succeeded => result.v.date.ms = 0

\* the calls parseTransaction made for the blocks, and those that returned
LoopCalls == SelectSeq(log, LAMBDA e : e.who = "loop")
Parsed == SelectSeq(log, LAMBDA e : e.who = "loop" /\ e.res.ok)
BatchDone == pc = "done" /\ op = "parseMultipleTransactions"

\* C7: when at least one block parses, parseMultipleTransactions returns the
\* results of parseTransaction on the blocks that parse, one each, in block
\* order; every block is tried, whatever the blocks before it did.
C7_BatchCollectsInOrder ==
    (BatchDone /\ Parsed # << >>) =>
        /\ Len(LoopCalls) = Len(blocks)
        /\ \A i \in 1..Len(blocks) : LoopCalls[i].arg = blocks[i]
        /\ outcome = Return([ i \in 1..Len(Parsed) |-> Parsed[i].res.v ])
        /\ LoopCalls = log

\* two blocks parsed to different records around or after a failing one
C7_Witness ==
    /\ BatchDone
    /\ Len(Parsed) = 2
    /\ Parsed[1].res.v # Parsed[2].res.v
    /\ Len(blocks) = 3
    /\ ~LoopCalls[1].res.ok

\* C8: parseMultipleTransactions never returns an empty list; when no block
\* parses, and only then, after every block was tried, it calls parseTransaction
\* on the whole input and returns that one record or fails.
C8_NeverEmpty ==
    /\ (pc = "normalize" /\ ret = "whole") =>
          /\ Len(log) = Len(blocks)
          /\ \A i \in 1..Len(log) : log[i].arg = blocks[i] /\ ~log[i].res.ok
          /\ text = input
    /\ BatchDone =>
          /\ outcome.ok => outcome.v # << >>
          /\ Parsed = << >> =>
                /\ Len(log) = Len(blocks) + 1
                /\ log[Len(log)].who = "whole"
                /\ log[Len(log)].arg = input
                /\ outcome = IF log[Len(log)].res.ok
                             THEN Return(<< log[Len(log)].res.v >>)
                             ELSE Throw("Failed to parse any transactions from text", << >>, NoFlags)

\* no block parsed, the whole input did
C8_Witness ==
    /\ BatchDone
    /\ Len(blocks) > 1
    /\ Parsed = << >>
    /\ outcome.ok
    /\ Len(outcome.v) = 1

C8_WitnessFails ==
    /\ BatchDone
    /\ Len(blocks) > 1
    /\ ~outcome.ok

OnlyWhite(t) == \A i \in 1..Len(t) : t[i] \in White

\* C9: parseTransaction fails on the empty string and on a string of white
\* space only: the text reaches the Compact handler, which finds no date.
C9_BlankFails ==
    (Returned /\ OnlyWhite(text)) =>
        /\ called = << "parseFormat3" >>
        /\ result = Throw("Failed to parse Format 3: No date found (expected YYYY-MM-DD)",
                          << >>, NoFlags)

C9_Witness ==
    /\ Returned
    /\ OnlyWhite(text)
    /\ Len(text) = MaxWhite
    /\ \E i \in 1..Len(text) : text[i] \in { TAB, CR }
    /\ ~result.ok

HoldsFourLabels(t) ==
    /\ ContainsFold(t, sDate)
    /\ ContainsFold(t, sDescription)
    /\ ContainsFold(t, sAmount)
    /\ \/ ContainsFold(t, sBalance \o << SP >> \o sAfter \o << ":" >>)
       \/ ContainsFold(t, sBalance \o << SP >> \o sAfter \o << SP >> \o sTransaction \o << ":" >>)

\* C10: when the single-line extraction finds no four fields in a one-line
\* Labeled text, the multi-line handler is run on that line, and it succeeds
\* whenever the four labels are present.
C10_FallbackSucceeds ==
    (Returned /\ called = << "parseFormat1SingleLine", "parseFormat1" >>
              /\ ~includes(normalized, << LF >>)
              /\ parseFormat1SingleLine(normalized).msg = "Failed to parse single-line Format 1"
              /\ HoldsFourLabels(normalized))
        => result.ok

\* ---- the Labeled and Compact handlers

\* t holds w at position i, letter case ignored
FoldAt(t, i, w) ==
    /\ i >= 1
    /\ i + Len(w) - 1 <= Len(t)
    /\ \A k \in 1..Len(w) : ToLowerCh(t[i + k - 1]) = ToLowerCh(w[k])

\* Date:, Description: and Amount: are there, and a Balance label with no
\* colon anywhere after it is followed by a number that ends the text
LostColon(t) ==
    /\ ContainsFold(t, sDate)
    /\ ContainsFold(t, sDescription)
    /\ ContainsFold(t, sAmount)
    /\ t # << >>
    /\ t[Len(t)] \in Digit
    /\ \E i \in 1..Len(t) :
          /\ FoldAt(t, i, sBalance)
          /\ \A k \in i..Len(t) : t[k] # ":"

\* C11: a Labeled input whose balance label has lost its colon, its other
\* three labels intact, parses, on one line and on separate lines alike.
C11_LooseBalanceParses ==
    (Returned /\ LostColon(normalized)) => result.ok

\* the four labels stand in t in the order Date, Description, Amount, Balance
UsualOrder(t) ==
    /\ FoldAt(t, 1, sDate)
    /\ \E b \in 1..Len(t) :
          /\ FoldAt(t, b, sDescription)
          /\ \E c \in (b + 1)..Len(t) :
                /\ FoldAt(t, c, sAmount)
                /\ \E d \in (c + 1)..Len(t) : FoldAt(t, d, sBalance)
LabelAt(t, i) == FoldAt(t, i, sDescription) \/ FoldAt(t, i, sAmount) \/ FoldAt(t, i, sBalance)
\* the one-line text t with each field put on a line of its own
Relined(t) == [ i \in 1..Len(t) |-> IF t[i] = SP /\ LabelAt(t, i + 1) THEN LF ELSE t[i] ]
MultiLineOutcome(t) == parseFormat1(LinesOf(Relined(t)))

\* C12: a Labeled transaction with its labels in the order Date, Description,
\* Amount, Balance gives the same record on one line as on separate lines.
C12_ModesAgree ==
    (Returned /\ ~includes(normalized, << LF >>) /\ UsualOrder(normalized)
              /\ MultiLineOutcome(normalized).ok)
        => result = MultiLineOutcome(normalized)

\* C13: every order of the four labelled fields gives the same record, one
\* field per line and all fields on one line alike.
C13_OrderFree ==
    (Returned /\ \E p \in Orders, sep \in { << LF >>, << SP >> } :
                     text = Ordered(BaseFields, p, sep))
        => result = parseFormat1(BaseFields)

\* the position after the white space that follows position i
AfterWhite(t, i) ==
    Min({ k \in i..(Len(t) + 1) : k > Len(t) \/ t[k] \notin White })
AnyLabelAt(t, i) == FoldAt(t, i, sDate) \/ LabelAt(t, i)
\* the label w stands in t and something other than a label follows it
ValueAfter(t, i, w) ==
    /\ FoldAt(t, i, w)
    /\ AfterWhite(t, i + Len(w)) <= Len(t)
    /\ ~AnyLabelAt(t, AfterWhite(t, i + Len(w)))
FieldFound(t, w) == \E i \in 1..Len(t) : ValueAfter(t, i, w)
FoundFlags(t) ==
    << FieldFound(t, sDate), FieldFound(t, sDescription), FieldFound(t, sAmount),
       FieldFound(t, tBalAfterT) \/ FieldFound(t, tBalAfter) >>

\* C14: a Labeled input that lacks a field (label absent or nothing after
\* it) fails with the missing-fields failure, which says for each of date,
\* description, amount and balance whether it was found; on separate lines
\* and on one line alike.
C14_MissingFieldsFailure ==
    (Returned /\ Family(called[1]) = "Labeled"
              /\ \E k \in 1..4 : ~FoundFlags(normalized)[k])
        => result = Throw("Failed to parse Format 1. Missing fields: ", << >>,
                          FoundFlags(normalized))

IsoAt(t, i) ==
    /\ AllDigits(t, i, 4)
    /\ CharAt(t, i + 4, { "-" })
    /\ AllDigits(t, i + 5, 2)
    /\ CharAt(t, i + 7, { "-" })
    /\ AllDigits(t, i + 8, 2)
\* a currency sign, k digits or commas, a point and two digits, from i
RupeeAmountAt(t, i, k) ==
    /\ CharAt(t, i, { RUPEE })
    /\ AllIn(t, i + 1, k, Digit \cup { "," })
    /\ CharAt(t, i + k + 1, { "." })
    /\ AllDigits(t, i + k + 2, 2)
RupeeAmountFrom(t, i) == \E k \in 1..Len(t) : RupeeAmountAt(t, i, k)
\* "Bal" or "Balance", white space, a currency sign or none, and a numeral
\* that has a digit in it
NumeralAt(t, i) ==
    \E k \in 1..Len(t) : AllIn(t, i, k, Digit \cup { "," }) /\ \E j \in i..(i + k - 1) : t[j] \in Digit
BalNumeralAfter(t, i) ==
    \E w \in 1..Len(t) :
        /\ AllIn(t, i, w, White)
        /\ (NumeralAt(t, i + w) \/ (CharAt(t, i + w, { RUPEE }) /\ NumeralAt(t, i + w + 1)))
BalAt(t, i) ==
    \/ FoldAt(t, i, sBal) /\ BalNumeralAfter(t, i + 3)
    \/ FoldAt(t, i, sBalance) /\ BalNumeralAfter(t, i + 7)
HoldsIso(t) == \E i \in 1..Len(t) : IsoAt(t, i)
HoldsRupeeAmount(t) == \E i \in 1..Len(t) : RupeeAmountFrom(t, i)
HoldsBal(t) == \E i \in 1..Len(t) : BalAt(t, i)
FirstIso(t) == Min({ i \in 1..Len(t) : IsoAt(t, i) })
FirstRupeeAmount(t) == Min({ i \in 1..Len(t) : RupeeAmountFrom(t, i) })
\* a txn token or nothing, and white space
OnlyTxnToken(u) ==
    \/ \A i \in 1..Len(u) : u[i] \in White
    \/ /\ FoldAt(u, AfterWhite(u, 1), sTxn)
       /\ \E k \in 0..Len(u) :
             /\ \A j \in (AfterWhite(u, 1) + 3)..(AfterWhite(u, 1) + 2 + k) : u[j] \in WordCh
             /\ \A j \in (AfterWhite(u, 1) + 3 + k)..Len(u) : u[j] \in White
\* what lies between the end of the first date and the start of the first
\* amount, nothing when the amount does not come after the date
Between(t) == SubSeq(t, FirstIso(t) + 10, FirstRupeeAmount(t) - 1)
HoldsDescription(t) == ~OnlyTxnToken(Between(t))

NoDate        == "Failed to parse Format 3: No date found (expected YYYY-MM-DD)"
NoAmount      == "Failed to parse Format 3: No amount found"
NoBalance     == "Failed to parse Format 3: No balance found"
NoDescription == "Failed to parse Format 3: No description found"
\* the first component the text lacks, in the order date, amount, balance,
\* description
FirstMissing(t) ==
    IF ~HoldsIso(t) THEN "date"
    ELSE IF ~HoldsRupeeAmount(t) THEN "amount"
    ELSE IF ~HoldsBal(t) THEN "balance"
    ELSE IF ~HoldsDescription(t) THEN "description"
    ELSE "none"
Names(msg) ==
    IF msg = NoDate THEN "date"
    ELSE IF msg = NoAmount THEN "amount"
    ELSE IF msg \in { NoBalance, "Failed to parse balance: " } THEN "balance"
    ELSE IF msg = NoDescription THEN "description"
    ELSE "other"

\* C15: the Compact handler looks for date, amount, balance and description
\* in that order; a failure names a component the text really lacks, the
\* first such in that order, with a message of its own for each, and a text
\* that lacks a component fails.
C15_FirstMissingNamed ==
    (Returned /\ called = << "parseFormat3" >>) =>
        /\ ~result.ok => Names(result.msg) = FirstMissing(normalized)
        /\ (FirstMissing(normalized) \in { "date", "amount", "balance" }) => ~result.ok
        /\ ~HoldsIso(normalized) => result.msg = NoDate
        /\ (HoldsIso(normalized) /\ ~HoldsRupeeAmount(normalized)) => result.msg = NoAmount

\* a text with a date and neither amount nor balance failed for its amount
C15_Witness ==
    /\ Returned
    /\ called = << "parseFormat3" >>
    /\ HoldsIso(normalized)
    /\ ~HoldsRupeeAmount(normalized)
    /\ ~HoldsBal(normalized)
    /\ result.msg = NoAmount

\* C16: when the Compact handler matches a date, an amount and a balance, the
\* description is the cleaned text strictly between the end of the date and
\* the start of the amount; when nothing lies between them, or the amount
\* comes before the date, the handler fails for want of a description.
C16_DescriptionBetween ==
    (Returned /\ called = << "parseFormat3" >>
              /\ HoldsIso(normalized) /\ HoldsRupeeAmount(normalized) /\ HoldsBal(normalized))
        => IF HoldsDescription(normalized)
           THEN /\ result.ok
                /\ result.v.description = CollapseSpaces(trim(StripTxn(trim(Between(normalized)))))
                /\ ~includes(result.v.description, SubSeq(normalized, FirstIso(normalized),
                                                          FirstIso(normalized) + 9))
           ELSE result = Throw(NoDescription, << >>, NoFlags)


\* ------------------------------------------------------------ the routes and the middleware

\* the extract handler is about to run parseTransaction on the request's text
Extracting == req.phase = "handler" /\ req.route = "extract" /\ ~NoContext(req)
                 /\ ~TextMissing(req.text)
ParseFails == ~parseTransaction(req.text.value).ok

\* C17: at POST /api/transactions/extract every failure of parseTransaction is
\* answered 400 and stores no transaction; it is never answered 500.
C17_ParseFailureIs400 ==
    [][ (Extracting /\ ParseFails /\ req'.phase = "done")
            => (req'.status = 400 /\ dbTransactions' = dbTransactions) ]_vars

\* GET /api/transactions has answered the request with a page
Listed == req.phase = "done" /\ req.route = "list" /\ req.status = 200
\* the stored transaction a listed item stands for is the caller's
OwnItem(item) ==
    \E i \in 1..Len(dbTransactions) :
        /\ dbTransactions[i].id = item.id
        /\ dbTransactions[i].userId = req.userId
        /\ dbTransactions[i].organizationId = req.organizationId
\* the stored transactions of the user the request was admitted as
RowsOf(user) == SelectSeq(dbTransactions, LAMBDA r : r.userId = user)

\* C18: whatever requests came before, a list holds only transactions whose
\* userId and organizationId are the caller's (the ones the middleware put in
\* the request's context), so never another user's, and a
\* first page holds each of the caller's stored transactions once, up to the
\* page limit.
C18_ListIsolation ==
    Listed =>
        /\ \A i \in 1..Len(req.data) : OwnItem(req.data[i])
        /\ \A i, j \in 1..Len(req.data) : req.data[i].id = req.data[j].id => i = j
        /\ ~req.cursor.present
              => Len(req.data) = Min({ Limit(req), Len(RowsOf(req.userId)) })
\* a user is shown a transaction of their own while another user's is stored
C18_Witness ==
    /\ Listed
    /\ req.data # << >>
    /\ \E i \in 1..Len(dbTransactions) : dbTransactions[i].userId # req.userId

\* the middleware has the request and is about to decide on it
AtMiddleware == req.phase = "middleware" /\ req' # req
HasBearer(h) == h.present /\ startsWith(h.value, sBearer)
NothingWritten == UNCHANGED << dbUsers, dbOrganizations, dbMembers, dbTransactions, issued >>

\* C19: a request with no Authorization header, or with one that does not
\* start with "Bearer ", is answered 401 by the middleware: no handler runs, no
\* table is queried and none is written.
C19_NoBearerIs401 ==
    [][ (AtMiddleware /\ ~HasBearer(req.header))
            => (req'.phase = "done" /\ req'.status = 401 /\ ~req'.queried /\ NothingWritten) ]_vars
\* a request with a live session cookie but no Authorization header was
\* answered 401 while a transaction was stored
C19_Witness ==
    /\ req.phase = "done"
    /\ ~req.header.present
    /\ req.cookie.present
    /\ req.status = 401
    /\ dbTransactions # << >>

\* the signature the server's key gives each payload
Signatures ==
    [ pA |-> "c2lnbmVkLXBB", pB |-> "c2lnbmVkLXBC", pX |-> "c2lnbmVkLXBY",
      pY |-> "c2lnbmVkLXBZ", pN |-> "c2lnbmVkLXBO" ]
BearerToken(h) == SubSeq(h.value, 8, Len(h.value))
ThreeParts(h) == HasBearer(h) /\ Len(split(BearerToken(h), ".")) = 3
\* the token has three parts and its third is the signature of its second
Signed(parts) ==
    /\ IsJson(parts[2])
    /\ parts[3] = << Signatures[parts[2][1]] >>
Tampered(h) == ThreeParts(h) /\ ~Signed(split(BearerToken(h), "."))
\* a signed token's exp, when it has one, has not passed
Unexpired(parts, clock) ==
    Payloads[parts[2][1]].exp = 0 \/ Payloads[parts[2][1]].exp * 1000 >= DateNow(clock)
\* the token is the token of a session that has not run out
LiveToken(h, clock) ==
    \E s \in SessionRows : s.token = BearerToken(h) /\ s.expiresAt > DateNow(clock)
ValidBearer(h, clock) ==
    /\ HasBearer(h)
    /\ \/ LiveToken(h, clock)
       \/ /\ ThreeParts(h)
          /\ Signed(split(BearerToken(h), "."))
          /\ Unexpired(split(BearerToken(h), "."), clock)

\* C20: the middleware lets a request through only when its bearer token is
\* valid, neither expired nor tampered with; a three-part token with a forged
\* payload or an invalid signature is answered 401 and no user or
\* organization is created from it.
C20_OnlyValidTokensPass ==
    [][ AtMiddleware
            => /\ req'.phase = "handler" => ValidBearer(req.header, now)
               /\ Tampered(req.header) => (req'.status = 401 /\ NothingWritten) ]_vars

\* ------------------------------------------------------------ amounts, dates and lines

\* C21: the Inline and Compact handlers return a negative amount only for a
\* text that holds a minus sign on the amount or a debit marker (Dr, Debit,
\* debited) as a word of its own; the letters "dr" inside another word leave
\* the amount positive.
C21_NegativeOnlyIfMarked ==
    (Succeeded /\ Family(called[Len(called)]) \in { "Inline", "Compact" }
               /\ IsNegative(result.v.amount))
        => (HoldsMinus(normalized) \/ HoldsDebitMarker(normalized))

\* s is a decimal numeral and nothing else: an optional sign, digits, and at
\* most one point with digits on at least one side
IsNumeral(s) ==
    /\ s # << >>
    /\ \A i \in 1..Len(s) : s[i] \in Digit \cup { ".", "-", "+" }
    /\ \A i \in 2..Len(s) : s[i] \notin { "-", "+" }
    /\ Cardinality({ i \in 1..Len(s) : s[i] = "." }) <= 1
    /\ \E i \in 1..Len(s) : s[i] \in Digit
\* the raw values parseFormat1 hands to the amount and the balance parser
RawAmounts(ls) ==
    { trim(Group(ls[i], Match(ls[i], ReF1Amount), 1)) :
        i \in { j \in 1..Len(ls) : ~Test(ls[j], ReF1Date) /\ ~Test(ls[j], ReF1Description)
                                   /\ Test(ls[j], ReF1Amount) } }
RawBalances(ls) ==
    { trim(Group(ls[i], Match(ls[i], ReF1Balance), 1)) :
        i \in { j \in 1..Len(ls) : ~Test(ls[j], ReF1Date) /\ ~Test(ls[j], ReF1Description)
                                   /\ ~Test(ls[j], ReF1Amount) /\ Test(ls[j], ReF1Balance) } }

\* C22: the amount parser and the balance parser return a number only for a
\* raw value that, without currency sign, commas and white space, is entirely
\* a decimal numeral; they never read a number off a prefix of the value.
C22_WholeValueIsNumeral ==
    (Succeeded /\ called = << "parseFormat1" >>)
        => \A raw \in RawAmounts(lines) \cup RawBalances(lines) : IsNumeral(Cleaned(raw))

\* the lines that match "Available Balance", and the others
IsBalanceLine(line) == Test(line, ReAvailableBalance)
BalanceLines(ls) == SelectSeq(ls, IsBalanceLine)
OtherLines(ls) == SelectSeq(ls, LAMBDA line : ~IsBalanceLine(line))
\* the fields the loop of the Inline handler ends with
Fields2(ls) == Format2Loop(ls, 1, NoFields)

\* C23: in the Inline handler a line matching "Available Balance" is the
\* balance line and nothing else: the date and the amount are those the
\* other lines give, and the balance is the first number of that line, even
\* when the line also holds a glyph and a date pattern.
C23_BalanceLineOnlySetsBalance ==
    (Returned /\ called = << "parseFormat2" >> /\ Len(BalanceLines(lines)) = 1
              /\ Fields2(OtherLines(lines)).ok)
        => /\ Fields2(lines).ok
           /\ Fields2(lines).v.date = Fields2(OtherLines(lines)).v.date
           /\ Fields2(lines).v.amount = Fields2(OtherLines(lines)).v.amount
           /\ Fields2(lines).v.balance
                = Format2Balance(BalanceLines(lines)[1], NoFields,
                                 Match(BalanceLines(lines)[1], ReF2Balance)).v.balance

\* the three lines are one description line, one date+amount line and one
\* Available Balance line, in whatever order
Plain(line) == ~HoldsGlyph(line) /\ ~HoldsSlashDate(line) /\ ~HoldsDMonYDate(line)
                  /\ ~IsBalanceLine(line)
Dated(line) == HoldsGlyph(line) /\ (HoldsSlashDate(line) \/ HoldsDMonYDate(line))
                  /\ ~IsBalanceLine(line)
Balancing(line) == IsBalanceLine(line) /\ ~HoldsSlashDate(line) /\ ~HoldsDMonYDate(line)
ThreeRoles(ls) ==
    /\ Len(ls) = 3
    /\ \E p \in Permutations(1..3) : Plain(ls[p[1]]) /\ Dated(ls[p[2]]) /\ Balancing(ls[p[3]])
Reordered(ls, p) == [ i \in 1..Len(ls) |-> ls[p[i]] ]

\* C24: for one description line, one date+amount line and one Available
\* Balance line, the Inline handler gives the same outcome for all six
\* orders of the three lines.
C24_LineOrderFree ==
    (Returned /\ called = << "parseFormat2" >> /\ ThreeRoles(lines))
        => \A p \in Permutations(1..3) : parseFormat2(Reordered(lines, p)) = result
\* a record was returned for the balance line first and the description last
C24_Witness ==
    /\ Succeeded
    /\ called = << "parseFormat2" >>
    /\ ThreeRoles(lines)
    /\ Balancing(lines[1])
    /\ Plain(lines[3])

\* ------------------------------------------------------------ single transactions and pages

\* the handler of GET or DELETE /api/transactions/:id is about to answer
AtOne == req.phase = "handler" /\ req.route \in { "get", "delete" } /\ req' # req
\* the caller owns the stored transaction the request names
CallerOwns ==
    \E i \in 1..Len(dbTransactions) :
        /\ dbTransactions[i].id = req.id
        /\ dbTransactions[i].userId = req.userId
        /\ dbTransactions[i].organizationId = req.organizationId

\* C25: GET and DELETE /api/transactions/:id by a caller who does not own the
\* transaction answer 404 and leave the stored transactions as they were;
\* DELETE by the owner removes that transaction and no other.
C25_OnlyOwnerReadsAndDeletes ==
    [][ AtOne
          => IF CallerOwns
             THEN /\ req'.status = 200
                  /\ dbTransactions' = IF req.route = "delete"
                                       THEN SelectSeq(dbTransactions, LAMBDA r : r.id # req.id)
                                       ELSE dbTransactions
             ELSE /\ req'.status = 404
                  /\ dbTransactions' = dbTransactions ]_vars
\* a user asked to delete another user's transaction and got 404
C25_Witness ==
    /\ req.phase = "done"
    /\ req.route = "delete"
    /\ req.status = 404
    /\ \E i \in 1..Len(dbTransactions) :
          dbTransactions[i].id = req.id /\ dbTransactions[i].userId # req.userId

\* the items of the pages the client was given, in the order given
RECURSIVE ItemsOf(_)
ItemsOf(ps) == IF ps = << >> THEN << >> ELSE ps[1].data \o ItemsOf(Tail(ps))
\* the client was told there is no further page
WalkDone == pages # << >> /\ ~pages[Len(pages)].nextCursor.present
\* page k ends the list: with it, every stored transaction of the caller was given
Exhausted(k) == Len(ItemsOf(SubSeq(pages, 1, k))) = Len(RowsOf("userA"))

\* C26: following nextCursor from the first page until it is null gives each
\* of the caller's transactions exactly once, newest first, in pages of at
\* most limit items, also when transactions share a createdAt; nextCursor is
\* null exactly when no further transaction remains.
C26_PagesCoverTheList ==
    /\ \A k \in 1..Len(pages) :
          /\ Len(pages[k].data) <= Limit(pages[k])
          /\ ~pages[k].nextCursor.present <=> Exhausted(k)
    /\ \A i, j \in 1..Len(ItemsOf(pages)) :
          /\ ItemsOf(pages)[i].id = ItemsOf(pages)[j].id => i = j
          /\ i < j => ItemsOf(pages)[i].createdAt >= ItemsOf(pages)[j].createdAt
    /\ WalkDone => \A i \in 1..Len(dbTransactions) :
                      \E j \in 1..Len(ItemsOf(pages)) : ItemsOf(pages)[j].id = dbTransactions[i].id


\* ------------------------------------------------------------ written dates

\* year y, month m, day d name a day of the calendar
OnCalendar(y, m, d) == m \in 1..12 /\ d \in 1..DaysInMonth(y, m)
\* a whole year-month-day token: no digit before it
IsoTokenAt(t, i) == IsoAt(t, i) /\ ~CharAt(t, i - 1, Digit)
\* the calendar date f is written in t, as month/day/year or as year-month-day
WrittenIn(t, f) ==
    \/ \E i \in 1..Len(t), a \in 1..2, b \in 1..2 :
          /\ SlashTokenAt(t, i, a, b)
          /\ OnCalendar(Digits4(t, i + a + b + 2), Digits2(t, i, a), Digits2(t, i + a + 1, b))
          /\ f = [ year |-> Digits4(t, i + a + b + 2), month |-> Digits2(t, i, a),
                   date |-> Digits2(t, i + a + 1, b) ]
    \/ \E i \in 1..Len(t) :
          /\ IsoTokenAt(t, i)
          /\ OnCalendar(Digits4(t, i), Digits2(t, i + 5, 2), Digits2(t, i + 8, 2))
          /\ f = [ year |-> Digits4(t, i), month |-> Digits2(t, i + 5, 2),
                   date |-> Digits2(t, i + 8, 2) ]

\* C27: the date of a returned record is a calendar date written in the
\* text: a numeric date whose month is outside 1..12 or whose day is outside
\* the month ("13/1/2025") makes parseTransaction fail, it is never rolled
\* over into another date. (Stated for texts whose dates are all numeric.)
C27_NoRolledOverDate ==
    (Succeeded /\ ~HoldsDMonYDate(normalized))
        => WrittenIn(normalized, UTCFields(result.v.date))

\* ------------------------------------------------------------ one line, one date and amount

\* the date and the amount that the date and amount branch reads from a line
\* alone
ReadAlone(line) == Format2DateAmount(line, NoFields)
\* line holds both the date and the amount of the record r
BothFrom(line, r) ==
    /\ HasGlyph(line)
    /\ HasDatePattern(line)
    /\ ReadAlone(line).ok
    /\ ReadAlone(line).v.date = r.date
    /\ ReadAlone(line).v.amount = r.amount

\* C28: the date and the amount of a record of the Inline handler are read
\* from one and the same line, also when several lines hold a glyph and a
\* date: the date of one line is never paired with the amount of another.
C28_DateAndAmountOfOneLine ==
    (Succeeded /\ called = << "parseFormat2" >>)
        => \E i \in 1..Len(lines) : BothFrom(lines[i], result.v)

\* ------------------------------------------------------------ line endings

\* the blocks of the text written with LF line endings
UnixBlocks(t) == BlocksOf(NormalizeBreaks(t))
\* the text is made of well-formed transactions, blank lines between them
WellFormedBlocks(t) ==
    /\ UnixBlocks(t) # << >>
    /\ \A i \in 1..Len(UnixBlocks(t)) : parseTransaction(UnixBlocks(t)[i]).ok

\* C30: parseMultipleTransactions splits the text into the same blocks for
\* every line-ending style: a text of N well-formed transactions separated by
\* blank lines gives the N records of the same text written with LF endings,
\* whether its lines end in LF, CR LF or CR.
C30_SameBlocksForEveryLineEnding ==
    (BatchDone /\ WellFormedBlocks(input))
        => outcome = Return([ i \in 1..Len(UnixBlocks(input)) |->
                                parseTransaction(UnixBlocks(input)[i]).v ])

\* ------------------------------------------------------------ one user, one organization

\* the memberships of user id
MembershipsOf(id) == { i \in 1..Len(dbMembers) : dbMembers[i].userId = id }
HasPassed(i) == racers[i].pc = "done" /\ racers[i].status = 200

\* C29: the requests of one user that pass authMiddleware are given the same
\* organizationId under every interleaving of concurrent requests, first
\* requests with auto-creation included, and the user never ends up with two
\* auto-created organizations.
C29_OneOrganizationPerUser ==
    /\ \A i, j \in 1..Len(racers) :
          (HasPassed(i) /\ HasPassed(j) /\ racers[i].userId = racers[j].userId)
              => racers[i].organizationId = racers[j].organizationId
    /\ \A u \in dbUsers : Cardinality(MembershipsOf(u.id)) <= 1
====
